---- MODULE Spec2Model ----
(***************************************************************************)
(* A model of the synapse-go router: the CORS middleware (cors.go), the    *)
(* per-API sub-router, the query-parameter middleware and the resource     *)
(* handler (service.go), and the mediation of a message through the        *)
(* resource's in-sequence and fault-sequence.                              *)
(*                                                                         *)
(* One HTTP request is in flight at a time; `pc` is the position of that   *)
(* request in the handler chain.  What a mediator returns, and what it     *)
(* does to the message context, is an input drawn when it executes.        *)
(*                                                                         *)
(* RouterSpec follows one RouterService through registrations, the start   *)
(* of its server, cancellation and shutdown: the current router of         *)
(* service.go, or the locked router of part_005 with its callers           *)
(* interleaved step by step.  ParserSpec applies API.Unmarshal (part_003)  *)
(* to the tokens of an API definition.  EngineSpec applies                 *)
(* ExpressionEngine.Evaluate (part_008) to a payload and a piped           *)
(* expression; the answers of gjson, xmlquery and xpath are tabulated for  *)
(* the documents of the inputs.  ContextSpec interleaves the calls of      *)
(* several goroutines on one MessageContext (part_009).  HandlerSpec runs  *)
(* one request through the resource handler of service.go or of part_005,  *)
(* and InboundSpec follows one HTTPInboundEndpoint through Start, Stop,    *)
(* cancellation and its two goroutines.                                    *)
(***************************************************************************)
EXTENDS Integers, Sequences, FiniteSets, TLC

VARIABLES
    served,       \* what answers requests: nothing, a registered API, or a wrapped test handler
    pc,           \* position of the request in flight
    req,          \* the request in flight
    w,            \* the http.ResponseWriter of the request in flight
    msgContext,   \* the synctx.MsgContext built by the resource handler
    executed,     \* the mediators executed for this message, in execution order
    seqName,      \* the sequence Mediate is executing: "in" or "fault"
    idx,          \* index in that sequence of the next mediator
    mediated,     \* what Mediate returned: "pending", "success", "failure"
    handlerCalls, \* invocations of the handler the CORS middleware wraps
    impl,         \* the RouterService under study: "service.go", "part_005", or "none"
    router,       \* rs.router: the patterns registered on the top-level http.ServeMux
    panicked,     \* a goroutine has panicked (a pattern conflict in the multiplexer)
    serverStarts, \* how many times the listener goroutine has been launched
    answer,       \* how the multiplexer answered the last request given to it since the
                  \* route table last changed
    mu,           \* rs.mu of part_005: the caller that holds it, or Unlocked
    started,      \* rs.started of part_005
    apis,         \* rs.apis of part_005: the names of the APIs stored
    callers,      \* the calls of RegisterAPI and Shutdown of part_005 and where each stands
    cancelled,    \* ctx.Done() is closed
    listener,     \* the goroutine in ListenAndServe: "none", "serving", "closed"
    monitor,      \* the goroutine waiting on ctx.Done(): "none", "waiting", "shutting",
                  \* "returned nil", "returned error"
    inflight,     \* requests the server has accepted and not yet answered
    xmlData,      \* the API definition handed to API.Unmarshal, as the deployer wrote it
    parsed,       \* what API.Unmarshal returned for it: the API and the error
    engine,       \* one ExpressionEngine.Evaluate call: its payload, its expression, its outcome
    mc,           \* one parser.MessageContext, its payloadLock and the calls made on it
    inbound,      \* one HTTPInboundEndpoint, its server and the context given to Start
    handling      \* one run of a resource handler: the request and what it handed to Mediate

requestVars == <<served, pc, req, w, msgContext, executed, seqName, idx, mediated, handlerCalls>>

lockVars == <<mu, started, apis, callers>>

serverVars == <<serverStarts, cancelled, listener, monitor, inflight>>

routerVars == <<impl, router, panicked, answer, lockVars, serverVars>>

parserVars == <<xmlData, parsed>>

\* the state of the expression engine, the message context, the inbound
\* endpoint and the resource handler run
payloadVars == <<engine, mc, inbound, handling>>

nonRequestVars == <<routerVars, parserVars, payloadVars>>

nonRouterVars == <<requestVars, parserVars, payloadVars>>

nonParserVars == <<requestVars, routerVars, payloadVars>>

vars == <<requestVars, nonRequestVars>>

-----------------------------------------------------------------------------
(* Bounds *)

\* longest in-sequence and fault-sequence of a registered resource
MaxMediators == 2

\* largest Access-Control-Max-Age a CORS configuration carries
MaxAgeBound == 1

-----------------------------------------------------------------------------
(* Values *)

StatusOK == 200
StatusNoContent == 204
StatusBadRequest == 400
StatusForbidden == 403
StatusMethodNotAllowed == 405
StatusInternalServerError == 500

MethodOptions == "OPTIONS"

Methods == {"GET", "POST", MethodOptions}

\* "" is an absent Origin header
Origins == {"", "http://a.com", "http://b.com", "http://x.c.com"}

\* "" is an absent Access-Control-Request-Headers header
RequestHeaders == {"", "X-Requested-With, Content-Type"}

QueryKeys == {"id", "extra"}

NilPayload == "<nil>"

EmptyMap == [k \in {} |-> ""]

Set(h, k, v) == [x \in (DOMAIN h) \cup {k} |-> IF x = k THEN v ELSE h[x]]

Get(h, k) == IF k \in DOMAIN h THEN h[k] ELSE ""

Contains(s, x) == \E i \in DOMAIN s : s[i] = x

RECURSIVE Join(_, _)
Join(s, sep) ==
    IF Len(s) = 0 THEN ""
    ELSE IF Len(s) = 1 THEN s[1]
    ELSE s[1] \o sep \o Join(Tail(s), sep)

NewResponseWriter == [status |-> 0, body |-> "", header |-> EmptyMap]

\* http.Error: plain-text content type, the status code, the message and a newline
httpError(rw, msg, code) ==
    [status |-> code,
     body   |-> msg \o "\n",
     header |-> Set(Set(rw.header, "Content-Type", "text/plain; charset=utf-8"),
                    "X-Content-Type-Options", "nosniff")]

-----------------------------------------------------------------------------
(* CORS configuration and middleware *)

AllowOriginLists == {<<"*">>, <<"http://a.com">>, <<"*.c.com">>}

CORSConfigs ==
    [Enabled          : BOOLEAN,
     AllowOrigins     : AllowOriginLists,
     AllowMethods     : {<<>>, <<"GET", "POST">>},
     AllowHeaders     : {<<>>, <<"Content-Type", "Authorization">>},
     ExposeHeaders    : {<<>>, <<"X-Custom-Header">>},
     AllowCredentials : BOOLEAN,
     MaxAge           : 0..MaxAgeBound]

\* the origins that are proper subdomains of the domain of a "*.domain" entry
SubdomainOrigins(entry) ==
    IF entry = "*.c.com" THEN {"http://x.c.com"} ELSE {}

IsOriginAllowed(config, origin) ==
    \E i \in DOMAIN config.AllowOrigins :
        LET allowed == config.AllowOrigins[i] IN
            \/ allowed = "*"
            \/ allowed = origin
            \/ origin \in SubdomainOrigins(allowed)

\* AllowOriginValue with the wildcard looked at before the credentials
AllowOriginValueWildcardFirst(config, origin) ==
    IF Contains(config.AllowOrigins, "*") THEN "*" ELSE origin

AllowOriginValue(config, origin) ==
    IF config.AllowCredentials /\ origin # ""
    THEN origin
    ELSE IF Contains(config.AllowOrigins, "*") THEN "*" ELSE origin

\* PreflightHeaders with the configured allow-list preferred to the request's headers
PreflightHeadersConfigFirst(config, r, h) ==
    LET h1 == IF Len(config.AllowMethods) > 0
              THEN Set(h, "Access-Control-Allow-Methods", Join(config.AllowMethods, ", "))
              ELSE h
        h2 == IF Len(config.AllowHeaders) > 0
              THEN Set(h1, "Access-Control-Allow-Headers", Join(config.AllowHeaders, ", "))
              ELSE IF r.acrh # ""
                   THEN Set(h1, "Access-Control-Allow-Headers", r.acrh)
                   ELSE h1
        h3 == IF config.MaxAge > 0
              THEN Set(h2, "Access-Control-Max-Age", ToString(config.MaxAge))
              ELSE h2
    IN IF config.AllowCredentials
       THEN Set(h3, "Access-Control-Allow-Credentials", "true")
       ELSE h3

PreflightHeaders(config, r, h) ==
    LET h1 == IF Len(config.AllowMethods) > 0
              THEN Set(h, "Access-Control-Allow-Methods", Join(config.AllowMethods, ", "))
              ELSE h
        h2 == IF r.acrh # ""
              THEN Set(h1, "Access-Control-Allow-Headers", r.acrh)
              ELSE IF Len(config.AllowHeaders) > 0
                   THEN Set(h1, "Access-Control-Allow-Headers", Join(config.AllowHeaders, ", "))
                   ELSE h1
        h3 == IF config.MaxAge > 0
              THEN Set(h2, "Access-Control-Max-Age", ToString(config.MaxAge))
              ELSE h2
    IN IF config.AllowCredentials
       THEN Set(h3, "Access-Control-Allow-Credentials", "true")
       ELSE h3

ActualRequestHeaders(config, h) ==
    LET h1 == IF Len(config.ExposeHeaders) > 0
              THEN Set(h, "Access-Control-Expose-Headers", Join(config.ExposeHeaders, ", "))
              ELSE h
    IN IF config.AllowCredentials
       THEN Set(h1, "Access-Control-Allow-Credentials", "true")
       ELSE h1

\* CORSMiddleware with Access-Control-Allow-Origin set before the origin is checked
CORSMiddlewareHeaderBeforeCheck(config, r, rw) ==
    IF ~config.Enabled THEN [w |-> rw, next |-> TRUE]
    ELSE IF r.origin = "" THEN [w |-> rw, next |-> TRUE]
    ELSE LET h   == Set(rw.header, "Access-Control-Allow-Origin", AllowOriginValue(config, r.origin))
             rw1 == [rw EXCEPT !.header = h]
         IN IF ~IsOriginAllowed(config, r.origin)
            THEN [w |-> httpError(rw1, "CORS: Origin not allowed", StatusForbidden), next |-> FALSE]
            ELSE IF r.method = MethodOptions
                 THEN [w |-> [rw EXCEPT !.header = PreflightHeaders(config, r, h),
                                        !.status = StatusNoContent],
                       next |-> FALSE]
                 ELSE [w |-> [rw EXCEPT !.header = ActualRequestHeaders(config, h)], next |-> TRUE]

\* CORSMiddleware without the pass-through of a request that has no Origin header
CORSMiddlewareNoOriginPassThrough(config, r, rw) ==
    IF ~config.Enabled THEN [w |-> rw, next |-> TRUE]
    ELSE IF ~IsOriginAllowed(config, r.origin)
         THEN [w |-> httpError(rw, "CORS: Origin not allowed", StatusForbidden), next |-> FALSE]
    ELSE LET h == Set(rw.header, "Access-Control-Allow-Origin", AllowOriginValue(config, r.origin)) IN
         IF r.method = MethodOptions
         THEN [w |-> [rw EXCEPT !.header = PreflightHeaders(config, r, h),
                                !.status = StatusNoContent],
               next |-> FALSE]
         ELSE [w |-> [rw EXCEPT !.header = ActualRequestHeaders(config, h)], next |-> TRUE]

\* The middleware up to the point where it either answers or calls the wrapped
\* handler: the writer it leaves, and whether the wrapped handler is called.
CORSMiddleware(config, r, rw) ==
    IF ~config.Enabled THEN [w |-> rw, next |-> TRUE]
    ELSE IF r.origin = "" THEN [w |-> rw, next |-> TRUE]
    ELSE IF ~IsOriginAllowed(config, r.origin)
         THEN [w |-> httpError(rw, "CORS: Origin not allowed", StatusForbidden), next |-> FALSE]
    ELSE LET h == Set(rw.header, "Access-Control-Allow-Origin", AllowOriginValue(config, r.origin)) IN
         IF r.method = MethodOptions
         THEN [w |-> [rw EXCEPT !.header = PreflightHeaders(config, r, h),
                                !.status = StatusNoContent],
               next |-> FALSE]
         ELSE [w |-> [rw EXCEPT !.header = ActualRequestHeaders(config, h)], next |-> TRUE]

-----------------------------------------------------------------------------
(* Registered API: resources, query-parameter contract, resource handler *)

\* a mediator list of n mediators, each named by its sequence and its place in it
MediatorList(name, n) == [i \in 1..n |-> <<name, i>>]

\* declared query parameters: request key -> variable name
QueryParameterMaps == {EmptyMap, [k \in {"id"} |-> "idVar"]}

Resources ==
    [Methods         : {{"GET"}, {"GET", MethodOptions}},
     QueryParameters : QueryParameterMaps,
     InSequence      : {MediatorList("in", n) : n \in 0..MaxMediators},
     FaultSequence   : {MediatorList("fault", n) : n \in 0..MaxMediators}]

\* the CORS configurations of the APIs handed to RegisterAPI
APICORSConfigs ==
    {c \in CORSConfigs :
        /\ c.AllowOrigins \in {<<"*">>, <<"http://a.com">>}
        /\ c.AllowMethods # <<>>
        /\ c.AllowHeaders # <<>>
        /\ c.ExposeHeaders = <<>>
        /\ ~c.AllowCredentials
        /\ c.MaxAge = MaxAgeBound}

APIs == [CORSConfig : APICORSConfigs, Resource : Resources]

\* `ACRH` accompanies a preflight only
Requests ==
    {r \in [method : Methods, origin : Origins, acrh : RequestHeaders, keys : SUBSET QueryKeys] :
        r.acrh # "" => r.method = MethodOptions}

NoRequest == [method |-> "", origin |-> "", acrh |-> "", keys |-> {}]

NotServed == [Kind |-> "none"]

NoAnswer == [kind |-> "none"]

\* the sub-router of an API: one pattern "METHOD path" per declared method;
\* the multiplexer answers 405 when the path is registered for other methods only
\* (apiHandlerMatches, below)

\* a pattern with the method GET matches both GET and HEAD requests
MethodMatches(patternMethod, m) ==
    patternMethod = m \/ (patternMethod = "GET" /\ m = "HEAD")

apiHandlerMatches(resource, r) ==
    \E patternMethod \in resource.Methods : MethodMatches(patternMethod, r.method)

\* createQueryParamMiddleware with the two loops in the other order
createQueryParamMiddlewareMissingFirst(resource, r, rw) ==
    LET declared   == DOMAIN resource.QueryParameters
        undeclared == r.keys \ declared
        missing    == declared \ r.keys
    IN IF declared = {} THEN {[w |-> rw, next |-> TRUE]}
       ELSE IF missing # {}
            THEN {[w |-> httpError(rw, "Missing required query parameter: " \o key, StatusBadRequest),
                   next |-> FALSE] : key \in missing}
       ELSE IF undeclared # {}
            THEN {[w |-> httpError(rw, "Unsupported query parameter: " \o key, StatusBadRequest),
                   next |-> FALSE] : key \in undeclared}
       ELSE {[w |-> rw, next |-> TRUE]}

\* createQueryParamMiddleware with the return after each http.Error left out
createQueryParamMiddlewareNoReturn(resource, r, rw) ==
    LET declared   == DOMAIN resource.QueryParameters
        undeclared == r.keys \ declared
        missing    == declared \ r.keys
    IN IF declared = {} THEN {[w |-> rw, next |-> TRUE]}
       ELSE IF undeclared # {}
            THEN {[w |-> httpError(rw, "Unsupported query parameter: " \o key, StatusBadRequest),
                   next |-> TRUE] : key \in undeclared}
       ELSE IF missing # {}
            THEN {[w |-> httpError(rw, "Missing required query parameter: " \o key, StatusBadRequest),
                   next |-> TRUE] : key \in missing}
       ELSE {[w |-> rw, next |-> TRUE]}

\* The outcomes of the query-parameter middleware: forward, or one of the 400s
\* (the key named is whichever the map iteration meets first).
createQueryParamMiddleware(resource, r, rw) ==
    LET declared   == DOMAIN resource.QueryParameters
        undeclared == r.keys \ declared
        missing    == declared \ r.keys
    IN IF declared = {} THEN {[w |-> rw, next |-> TRUE]}
       ELSE IF undeclared # {}
            THEN {[w |-> httpError(rw, "Unsupported query parameter: " \o key, StatusBadRequest),
                   next |-> FALSE] : key \in undeclared}
       ELSE IF missing # {}
            THEN {[w |-> httpError(rw, "Missing required query parameter: " \o key, StatusBadRequest),
                   next |-> FALSE] : key \in missing}
       ELSE {[w |-> rw, next |-> TRUE]}

\* every query parameter of the model's requests carries this value
QueryValue == "5"

NoMsgContext == [Headers |-> EmptyMap, RawPayload |-> NilPayload, Properties |-> EmptyMap]

\* synctx.CreateMsgContext and the properties the resource handler sets
createMsgContext(resource, r) ==
    LET declared == DOMAIN resource.QueryParameters
        base     == [k \in {"http_request_body", "uriParams"} |->
                        IF k = "http_request_body" THEN {"r.Body"} ELSE {}]
        queryVarMap == {<<resource.QueryParameters[k], QueryValue>> : k \in declared \cap r.keys}
    IN [Headers    |-> EmptyMap,
        RawPayload |-> NilPayload,
        Properties |-> IF declared # {} THEN Set(base, "queryParams", queryVarMap) ELSE base]

\* writeResponse with a failed mediation answered like a successful one
writeResponseIgnoringFailure(success, ctx, rw) ==
    [status |-> StatusOK,
     body   |-> IF ctx.RawPayload # NilPayload THEN ctx.RawPayload ELSE rw.body,
     header |-> [x \in (DOMAIN rw.header) \cup (DOMAIN ctx.Headers) |->
                   IF x \in DOMAIN ctx.Headers THEN ctx.Headers[x] ELSE rw.header[x]]]

\* writeResponse with the context's headers copied before success is looked at
writeResponseHeadersFirst(success, ctx, rw) ==
    LET h == [x \in (DOMAIN rw.header) \cup (DOMAIN ctx.Headers) |->
                 IF x \in DOMAIN ctx.Headers THEN ctx.Headers[x] ELSE rw.header[x]]
    IN IF success
       THEN [status |-> StatusOK,
             body   |-> IF ctx.RawPayload # NilPayload THEN ctx.RawPayload ELSE rw.body,
             header |-> h]
       ELSE [status |-> StatusInternalServerError,
             body   |-> "Internal server error\n",
             header |-> h]

\* the response the resource handler writes once Mediate has returned
writeResponse(success, ctx, rw) ==
    IF success
    THEN [status |-> StatusOK,
          body   |-> IF ctx.RawPayload # NilPayload THEN ctx.RawPayload ELSE rw.body,
          header |-> [x \in (DOMAIN rw.header) \cup (DOMAIN ctx.Headers) |->
                        IF x \in DOMAIN ctx.Headers THEN ctx.Headers[x] ELSE rw.header[x]]]
    ELSE httpError(rw, "Internal server error", StatusInternalServerError)

-----------------------------------------------------------------------------
(* Mediation: Resource.Mediate, Sequence execution, Mediator.Execute *)

\* what Mediator.Execute returns: (true, nil), (false, nil), (_, err)
MediatorResults == {"ok", "stop", "error"}

\* what a mediator does to the message context: nothing to headers and payload
\* (LogMediator), or a payload and a Content-Type header (the tests' MockMediator)
MediatorEffects == {"log", "mock"}

ApplyEffect(eff, ctx) ==
    IF eff = "mock"
    THEN [ctx EXCEPT !.RawPayload = "Test response",
                     !.Headers = Set(ctx.Headers, "Content-Type", "text/plain")]
    ELSE ctx

MediatorFailed(res) == res # "ok"

SequenceOf(resource, name) ==
    IF name = "in" THEN resource.InSequence ELSE resource.FaultSequence

\* AfterMediator with the failure of a mediator ignored: the sequence goes on
AfterMediatorIgnoringFailure(name, i, res) ==
    [pc |-> "mediate", seqName |-> name, idx |-> i + 1, mediated |-> "pending"]

\* where Mediate goes after a mediator of sequence `name` returned `res`
AfterMediator(name, i, res) ==
    IF ~MediatorFailed(res)
    THEN [pc |-> "mediate", seqName |-> name, idx |-> i + 1, mediated |-> "pending"]
    ELSE IF name = "in"
         THEN [pc |-> "mediate", seqName |-> "fault", idx |-> 1, mediated |-> "pending"]
         ELSE [pc |-> "write", seqName |-> name, idx |-> i, mediated |-> "failure"]

\* what Mediate may return once sequence `name` has run to its end
AfterSequence(name) ==
    IF name = "in" THEN {"success"} ELSE {"success", "failure"}

-----------------------------------------------------------------------------
(* State machine *)

RequestInit ==
    /\ served = NotServed
    /\ pc = "idle"
    /\ req = NoRequest
    /\ w = NewResponseWriter
    /\ msgContext = NoMsgContext
    /\ executed = <<>>
    /\ seqName = "in"
    /\ idx = 1
    /\ mediated = "pending"
    /\ handlerCalls = 0

\* no RouterService is under study while single requests are followed
RouterIdle ==
    /\ impl = "none"
    /\ router = {}
    /\ panicked = FALSE
    /\ serverStarts = 0
    /\ answer = NoAnswer
    /\ mu = 0
    /\ started = FALSE
    /\ apis = {}
    /\ callers = <<>>
    /\ cancelled = FALSE
    /\ listener = "none"
    /\ monitor = "none"
    /\ inflight = 0

\* artifacts.Position{}; the line number is left out of the model
ZeroPosition == [FileName |-> "", Hierarchy |-> ""]

\* artifacts.API{}
ZeroAPI ==
    [Context |-> "", Name |-> "", Version |-> "", VersionType |-> "",
     Resources |-> <<>>, Position |-> ZeroPosition]

\* API.Unmarshal has not returned
NotParsed == [api |-> ZeroAPI, err |-> "not parsed"]

\* no API definition is at hand
NoXML == [name |-> "none"]

ParserIdle == xmlData = NoXML /\ parsed = NotParsed

\* no expression is evaluated, no message context and no inbound endpoint
\* exist, no resource handler runs
PayloadIdle ==
    /\ engine = [pc |-> "none"]
    /\ mc = [pc |-> "none"]
    /\ inbound = [pc |-> "none"]
    /\ handling = [pc |-> "none"]

Init == RequestInit /\ RouterIdle /\ ParserIdle /\ PayloadIdle

\* RegisterAPI with the sub-router never wrapped in the CORS middleware
RegisterAPIWithoutCORS(api) ==
    /\ served = NotServed
    /\ served' = [Kind |-> "api", Wrapped |-> FALSE,
                  CORSConfig |-> api.CORSConfig, Resource |-> api.Resource]
    /\ UNCHANGED <<pc, req, w, msgContext, executed, seqName, idx, mediated, handlerCalls>>
    /\ UNCHANGED nonRequestVars

\* RegisterAPI: one route per method of the resource on the API's sub-router,
\* wrapped in the CORS middleware only when the API enables CORS
RegisterAPI(api) ==
    /\ served = NotServed
    /\ served' = [Kind |-> "api", Wrapped |-> api.CORSConfig.Enabled,
                  CORSConfig |-> api.CORSConfig, Resource |-> api.Resource]
    /\ UNCHANGED <<pc, req, w, msgContext, executed, seqName, idx, mediated, handlerCalls>>
    /\ UNCHANGED nonRequestVars

\* CORSMiddleware(createTestHandler(), config), as the middleware's tests build it
WrapTestHandler(config) ==
    /\ served = NotServed
    /\ served' = [Kind |-> "test", Wrapped |-> TRUE,
                  CORSConfig |-> config, Resource |-> CHOOSE x \in Resources : TRUE]
    /\ UNCHANGED <<pc, req, w, msgContext, executed, seqName, idx, mediated, handlerCalls>>
    /\ UNCHANGED nonRequestVars

\* a request arrives; an unwrapped handler is called straight away
ServeHTTP(r) ==
    /\ served # NotServed
    /\ pc = "idle"
    /\ req' = r
    /\ IF served.Wrapped
       THEN pc' = "cors" /\ handlerCalls' = 0
       ELSE pc' = "handler" /\ handlerCalls' = 1
    /\ UNCHANGED <<served, w, msgContext, executed, seqName, idx, mediated>>
    /\ UNCHANGED nonRequestVars

ServeCORS ==
    /\ pc = "cors"
    /\ LET out == CORSMiddleware(served.CORSConfig, req, w) IN
         /\ w' = out.w
         /\ pc' = IF out.next THEN "handler" ELSE "done"
         /\ handlerCalls' = IF out.next THEN handlerCalls + 1 ELSE handlerCalls
    /\ UNCHANGED <<served, req, msgContext, executed, seqName, idx, mediated>>
    /\ UNCHANGED nonRequestVars

\* createTestHandler: 200 and "test response"
TestHandler ==
    /\ pc = "handler"
    /\ served.Kind = "test"
    /\ w' = [w EXCEPT !.status = StatusOK, !.body = "test response"]
    /\ pc' = "done"
    /\ UNCHANGED <<served, req, msgContext, executed, seqName, idx, mediated, handlerCalls>>
    /\ UNCHANGED nonRequestVars

\* the API's sub-router dispatches on "METHOD path"
APIHandler ==
    /\ pc = "handler"
    /\ served.Kind = "api"
    /\ IF apiHandlerMatches(served.Resource, req)
       THEN pc' = "query" /\ w' = w
       ELSE pc' = "done" /\ w' = httpError(w, "Method Not Allowed", StatusMethodNotAllowed)
    /\ UNCHANGED <<served, req, msgContext, executed, seqName, idx, mediated, handlerCalls>>
    /\ UNCHANGED nonRequestVars

QueryParamMiddleware ==
    /\ pc = "query"
    /\ \E out \in createQueryParamMiddleware(served.Resource, req, w) :
         /\ w' = out.w
         /\ pc' = IF out.next THEN "resource" ELSE "done"
    /\ UNCHANGED <<served, req, msgContext, executed, seqName, idx, mediated, handlerCalls>>
    /\ UNCHANGED nonRequestVars

\* the resource handler builds the message context and calls Mediate
ResourceHandler ==
    /\ pc = "resource"
    /\ msgContext' = createMsgContext(served.Resource, req)
    /\ pc' = "mediate"
    /\ seqName' = "in"
    /\ idx' = 1
    /\ UNCHANGED <<served, req, w, executed, mediated, handlerCalls>>
    /\ UNCHANGED nonRequestVars

ExecuteMediator ==
    /\ pc = "mediate"
    /\ idx <= Len(SequenceOf(served.Resource, seqName))
    /\ \E res \in MediatorResults, eff \in MediatorEffects :
         LET nxt == AfterMediator(seqName, idx, res) IN
           /\ executed' = Append(executed,
                  [mediator |-> SequenceOf(served.Resource, seqName)[idx], res |-> res])
           /\ msgContext' = ApplyEffect(eff, msgContext)
           /\ pc' = nxt.pc
           /\ seqName' = nxt.seqName
           /\ idx' = nxt.idx
           /\ mediated' = nxt.mediated
    /\ UNCHANGED <<served, req, w, handlerCalls>>
    /\ UNCHANGED nonRequestVars

SequenceDone ==
    /\ pc = "mediate"
    /\ idx > Len(SequenceOf(served.Resource, seqName))
    /\ mediated' \in AfterSequence(seqName)
    /\ pc' = "write"
    /\ UNCHANGED <<served, req, w, msgContext, executed, seqName, idx, handlerCalls>>
    /\ UNCHANGED nonRequestVars

WriteResponse ==
    /\ pc = "write"
    /\ w' = writeResponse(mediated = "success", msgContext, w)
    /\ pc' = "done"
    /\ UNCHANGED <<served, req, msgContext, executed, seqName, idx, mediated, handlerCalls>>
    /\ UNCHANGED nonRequestVars

\* the response is sent and the next request may arrive
Finish ==
    /\ pc = "done"
    /\ pc' = "idle"
    /\ req' = NoRequest
    /\ w' = NewResponseWriter
    /\ msgContext' = NoMsgContext
    /\ executed' = <<>>
    /\ seqName' = "in"
    /\ idx' = 1
    /\ mediated' = "pending"
    /\ handlerCalls' = 0
    /\ UNCHANGED served
    /\ UNCHANGED nonRequestVars

Next ==
    \/ \E api \in APIs : RegisterAPI(api)
    \/ \E config \in CORSConfigs : WrapTestHandler(config)
    \/ \E r \in Requests : ServeHTTP(r)
    \/ ServeCORS
    \/ TestHandler
    \/ APIHandler
    \/ QueryParamMiddleware
    \/ ResourceHandler
    \/ ExecuteMediator
    \/ SequenceDone
    \/ WriteResponse
    \/ Finish

Spec == Init /\ [][Next]_vars

-----------------------------------------------------------------------------
(* RouterService: base path, route table and multiplexer *)

StatusMovedPermanently == 301
StatusNotFound == 404

\* most APIs one RouterService is given
MaxAPIs == 2

HasPrefix(s, prefix) ==
    Len(prefix) <= Len(s) /\ SubSeq(s, 1, Len(prefix)) = prefix

HasSuffix(s, suffix) ==
    Len(suffix) <= Len(s) /\ SubSeq(s, Len(s) - Len(suffix) + 1, Len(s)) = suffix

\* strings.Index, counting from 1; 0 when substr does not occur in s
RECURSIVE IndexFrom(_, _, _)
IndexFrom(s, substr, i) ==
    IF i + Len(substr) - 1 > Len(s) THEN 0
    ELSE IF SubSeq(s, i, i + Len(substr) - 1) = substr THEN i
    ELSE IndexFrom(s, substr, i + 1)

Index(s, substr) == IndexFrom(s, substr, 1)

\* strings.Replace(s, old, new, 1)
Replace1(s, old, new) ==
    LET i == Index(s, old) IN
        IF i = 0 THEN s
        ELSE SubSeq(s, 1, i - 1) \o new \o SubSeq(s, i + Len(old), Len(s))

versionPattern == "{version}"

\* the base path RegisterAPI derives from the API's context and version
BasePath(api) ==
    LET c == api.Context
        basePath == IF Len(c) > 1 /\ HasSuffix(c, "/") THEN SubSeq(c, 1, Len(c) - 1) ELSE c
    IN IF api.Version # "" /\ api.VersionType # ""
       THEN IF api.VersionType = "url" THEN basePath \o "/" \o api.Version
            ELSE IF api.VersionType = "context"
                 THEN Replace1(basePath, versionPattern, api.Version)
                 ELSE basePath
       ELSE basePath

SwaggerBasePath(api) ==
    IF api.Version # "" THEN "/" \o api.Name \o "/" \o api.Version ELSE "/" \o api.Name

\* method + " " + resource.URITemplate.PathTemplate, for every method of every resource
SubRouterPatterns(api) ==
    {[resource |-> i, method |-> api.Resources[i].Methods[k],
      path |-> api.Resources[i].PathTemplate, place |-> <<i, k>>] :
        <<i, k>> \in UNION {{<<j, l>> : l \in DOMAIN api.Resources[j].Methods} :
                                j \in DOMAIN api.Resources}}

\* http.ServeMux panics when a pattern is registered twice
SubRouterConflict(api) ==
    \E p, q \in SubRouterPatterns(api) :
        p.place # q.place /\ p.method = q.method /\ p.path = q.path

Patterns(mux) == {e.pattern : e \in mux}

NoAPI == [Name |-> ""]

LivezRoute == [pattern |-> "/livez", kind |-> "livez", api |-> NoAPI]

SwaggerRoute(api) == [pattern |-> SwaggerBasePath(api), kind |-> "swagger", api |-> api]

\* rs.router.Handle(basePath+"/", http.StripPrefix(basePath, handler))
MountRoute(api) == [pattern |-> BasePath(api) \o "/", kind |-> "api", api |-> api]

\* RegisterAPI's effect on rs.router: the swagger route first, then the
\* sub-router's patterns, then the mount; a pattern registered twice panics
\* and leaves what was registered before it
RegisterOnMux(mux, api) ==
    IF SwaggerRoute(api).pattern \in Patterns(mux)
    THEN [router |-> mux, panicked |-> TRUE]
    ELSE IF \/ SubRouterConflict(api)
            \/ MountRoute(api).pattern \in Patterns(mux) \cup {SwaggerRoute(api).pattern}
         THEN [router |-> mux \cup {SwaggerRoute(api)}, panicked |-> TRUE]
         ELSE [router |-> mux \cup {SwaggerRoute(api), MountRoute(api)}, panicked |-> FALSE]

StatusAnswer(r, code) == [kind |-> "status", req |-> r, status |-> code]

\* the handler of /livez: 200 and {"status": "UP", "timestamp": ...}
LivezAnswer(r) == [kind |-> "livez", req |-> r, status |-> StatusOK, body |-> [status |-> "UP"]]

\* the API's sub-router: the pattern of the request's path whose method
\* matches (an exact method before GET-for-HEAD), 405 when the path is
\* registered for other methods only, 404 when it is not registered
SubRouterAnswer(api, r, path) ==
    LET onPath == {p \in SubRouterPatterns(api) : p.path = path}
        exact  == {p \in onPath : p.method = r.method}
        hit    == IF exact # {} THEN exact
                  ELSE {p \in onPath : MethodMatches(p.method, r.method)}
    IN IF onPath = {} THEN StatusAnswer(r, StatusNotFound)
       ELSE IF hit = {} THEN StatusAnswer(r, StatusMethodNotAllowed)
       ELSE [kind |-> "resource", req |-> r, api |-> api,
             resource |-> (CHOOSE p \in hit : TRUE).resource]

\* the mounted handler: prefix stripped, CORS middleware when enabled, sub-router
MountAnswer(api, r) ==
    LET path == SubSeq(r.path, Len(BasePath(api)) + 1, Len(r.path))
        out  == CORSMiddleware(api.CORSConfig,
                               [method |-> r.method, origin |-> r.origin, acrh |-> "", keys |-> {}],
                               NewResponseWriter)
    IN IF api.CORSConfig.Enabled /\ ~out.next
       THEN [kind |-> "cors", req |-> r, status |-> out.w.status]
       ELSE SubRouterAnswer(api, r, path)

\* http.ServeMux: a request whose path is not clean is redirected to the clean
\* path; otherwise the pattern equal to the path, or else the longest pattern
\* ending in "/" that is a prefix of it, answers
ServeMuxAnswer(mux, r) ==
    LET exact   == {e \in mux : e.pattern = r.path}
        subtree == {e \in mux : HasSuffix(e.pattern, "/") /\ HasPrefix(r.path, e.pattern)}
        best    == IF exact # {} THEN exact
                   ELSE {e \in subtree : \A f \in subtree : Len(f.pattern) <= Len(e.pattern)}
    IN IF Index(r.path, "//") # 0 THEN StatusAnswer(r, StatusMovedPermanently)
       ELSE IF best = {}
            THEN IF (r.path \o "/") \in Patterns(mux)
                 THEN StatusAnswer(r, StatusMovedPermanently)
                 ELSE StatusAnswer(r, StatusNotFound)
       ELSE LET e == CHOOSE x \in best : TRUE IN
                IF e.kind = "livez" THEN LivezAnswer(r)
                ELSE IF e.kind = "swagger" THEN StatusAnswer(r, StatusNotFound)
                ELSE MountAnswer(e.api, r)

\* the contexts and versions of the APIs a RouterService is given
RouterVersionings ==
    {[Context |-> "/api", Version |-> "", VersionType |-> ""],
     [Context |-> "/api/", Version |-> "", VersionType |-> ""],
     [Context |-> "/", Version |-> "", VersionType |-> ""],
     [Context |-> "/api", Version |-> "v1", VersionType |-> "url"],
     [Context |-> "/api/", Version |-> "v1", VersionType |-> "url"],
     [Context |-> "/api", Version |-> "", VersionType |-> "url"],
     [Context |-> "/api/{version}/services", Version |-> "v1", VersionType |-> "context"],
     [Context |-> "/api/{versions}/services", Version |-> "v1", VersionType |-> "context"],
     [Context |-> "/{version}/{version}", Version |-> "v1", VersionType |-> "context"]}

RouterResourceLists ==
    {<<[Methods |-> <<"GET">>, PathTemplate |-> "/r1"]>>,
     <<[Methods |-> <<"GET", "POST">>, PathTemplate |-> "/r1"],
       [Methods |-> <<"POST">>, PathTemplate |-> "/r2"]>>,
     <<[Methods |-> <<"GET">>, PathTemplate |-> "/r1"],
       [Methods |-> <<"GET">>, PathTemplate |-> "/r1"]>>}

NoCORS == CHOOSE c \in CORSConfigs :
    ~c.Enabled /\ c.AllowOrigins = <<"*">> /\ c.AllowMethods = <<>> /\ c.AllowHeaders = <<>>
    /\ c.ExposeHeaders = <<>> /\ ~c.AllowCredentials /\ c.MaxAge = 0

RouterCORSConfigs == {NoCORS, [NoCORS EXCEPT !.Enabled = TRUE, !.AllowOrigins = <<"http://a.com">>]}

RouterAPI(name, v, resources, cors) ==
    [Name |-> name, Context |-> v.Context, Version |-> v.Version, VersionType |-> v.VersionType,
     Resources |-> resources, CORSConfig |-> cors]

RouterAPIs ==
    {RouterAPI("TestAPI", v, <<[Methods |-> <<"GET">>, PathTemplate |-> "/r1"]>>, NoCORS) :
        v \in RouterVersionings}
    \cup
    {RouterAPI(name, [Context |-> "/api", Version |-> "", VersionType |-> ""], rs, cors) :
        name \in {"TestAPI", "livez"}, rs \in RouterResourceLists, cors \in RouterCORSConfigs}

RouterMethods == {"GET", "POST", "HEAD", "DELETE"}

RouterOrigins == {"", "http://b.com"}

MountedAPIs(mux) == {e.api : e \in {x \in mux : x.kind = "api"}}

RegisteredAPIs(mux) == {e.api : e \in {x \in mux : x.kind = "swagger"}}

\* the paths requests are made on: /livez, a path no API has, and
\* <basePath><pathTemplate> of every resource of every mounted API
RequestPaths(mux) ==
    {"/livez", "/r1"} \cup
    UNION {{BasePath(api) \o api.Resources[i].PathTemplate : i \in DOMAIN api.Resources} :
              api \in MountedAPIs(mux)}

RouterRequests(mux) ==
    [method : RouterMethods, origin : RouterOrigins, path : RequestPaths(mux)]

LivezProbe == [method |-> "GET", origin |-> "", path |-> "/livez"]

\* most requests in flight at once on the server
MaxInflight == 1

\* callers of RegisterAPI and Shutdown on the RouterService of part_005
MaxCallers == 3

Callers == 1..MaxCallers

\* the mutex rs.mu when no caller holds it
Unlocked == 0

\* the APIs given to the RouterService of part_005:
\* one pattern resource.Methods + " " + api.Context + resource.URITemplate per resource
LockedAPIs ==
    {[Name |-> "A", Context |-> "/a",
      Resources |-> <<[Methods |-> "GET", URITemplate |-> "/r"]>>],
     [Name |-> "B", Context |-> "/b",
      Resources |-> <<[Methods |-> "GET", URITemplate |-> "/r"],
                      [Methods |-> "POST", URITemplate |-> "/r"]>>]}

LockedPatterns(api) ==
    {api.Resources[i].Methods \o " " \o api.Context \o api.Resources[i].URITemplate :
        i \in DOMAIN api.Resources}

LockedRoutes(api) ==
    {[pattern |-> p, kind |-> "handler", api |-> api] : p \in LockedPatterns(api)}

IdleCaller == [op |-> "none", api |-> NoAPI, pc |-> "idle", ctxDone |-> FALSE]

\* the positions of a caller that holds rs.mu
InsideSection == {"routes", "check", "start", "shutdown", "draining", "unlock"}

RouterInit ==
    /\ RequestInit
    /\ impl \in {"service.go", "part_005"}
    /\ router = {}
    /\ panicked = FALSE
    /\ serverStarts = 0
    /\ answer = NoAnswer
    /\ mu = Unlocked
    /\ started = FALSE
    /\ apis = {}
    /\ callers = [p \in Callers |-> IdleCaller]
    /\ cancelled = FALSE
    /\ listener = "none"
    /\ monitor = "none"
    /\ inflight = 0
    /\ ParserIdle
    /\ PayloadIdle

\* RegisterAPI of service.go on the RouterService under study
RouterRegisterAPI(api) ==
    /\ impl = "service.go"
    /\ ~panicked
    /\ Cardinality(RegisteredAPIs(router)) < MaxAPIs
    /\ LET out == RegisterOnMux(router, api) IN
         /\ router' = out.router
         /\ panicked' = out.panicked
    /\ answer' = NoAnswer
    /\ UNCHANGED <<impl, serverStarts, lockVars, cancelled, listener, monitor, inflight>>
    /\ UNCHANGED nonRouterVars

\* StartServer of service.go: the liveness route is registered, then the
\* listener and the shutdown monitor are launched
StartServer ==
    /\ impl = "service.go"
    /\ ~panicked
    /\ IF LivezRoute.pattern \in Patterns(router)
       THEN panicked' = TRUE /\ UNCHANGED <<router, serverStarts, listener, monitor>>
       ELSE /\ router' = router \cup {LivezRoute}
            /\ serverStarts' = serverStarts + 1
            /\ listener' = "serving"
            /\ monitor' = "waiting"
            /\ panicked' = FALSE
    /\ answer' = NoAnswer
    /\ UNCHANGED <<impl, lockVars, cancelled, inflight>>
    /\ UNCHANGED nonRouterVars

\* rs.router.ServeHTTP(w, r)
MuxServeHTTP(r) ==
    /\ impl = "service.go"
    /\ ~panicked
    /\ answer' = ServeMuxAnswer(router, r)
    /\ UNCHANGED <<impl, router, panicked, serverVars, lockVars>>
    /\ UNCHANGED nonRouterVars

\* after a panic the process is gone and a request gets no answer
ProbeAfterPanic ==
    /\ panicked
    /\ answer' = [kind |-> "refused", req |-> LivezProbe]
    /\ UNCHANGED <<impl, router, panicked, serverVars, lockVars>>
    /\ UNCHANGED nonRouterVars

\* a caller enters RegisterAPI(ctx, api) of part_005
CallRegisterAPI(p, api) ==
    /\ impl = "part_005"
    /\ ~panicked
    /\ callers[p].pc = "idle"
    /\ callers' = [callers EXCEPT ![p] =
                      [op |-> "RegisterAPI", api |-> api, pc |-> "lock", ctxDone |-> cancelled]]
    /\ UNCHANGED <<impl, router, panicked, answer, mu, started, apis, serverVars>>
    /\ UNCHANGED nonRouterVars

\* a caller enters Shutdown(ctx) of part_005
CallShutdown(p) ==
    /\ impl = "part_005"
    /\ ~panicked
    /\ callers[p].pc = "idle"
    /\ callers' = [callers EXCEPT ![p] =
                      [op |-> "Shutdown", api |-> NoAPI, pc |-> "lock", ctxDone |-> cancelled]]
    /\ UNCHANGED <<impl, router, panicked, answer, mu, started, apis, serverVars>>
    /\ UNCHANGED nonRouterVars

\* Lock that does not wait for the mutex to be free
LockWithoutWaiting(p) ==
    /\ ~panicked
    /\ callers[p].pc = "lock"
    /\ mu' = p
    /\ callers' = [callers EXCEPT ![p].pc =
                      IF callers[p].op = "RegisterAPI" THEN "routes" ELSE "shutdown"]
    /\ UNCHANGED <<impl, router, panicked, answer, started, apis, serverVars>>
    /\ UNCHANGED nonRouterVars

\* rs.mu.Lock()
Lock(p) ==
    /\ ~panicked
    /\ callers[p].pc = "lock"
    /\ mu = Unlocked
    /\ mu' = p
    /\ callers' = [callers EXCEPT ![p].pc =
                      IF callers[p].op = "RegisterAPI" THEN "routes" ELSE "shutdown"]
    /\ UNCHANGED <<impl, router, panicked, answer, started, apis, serverVars>>
    /\ UNCHANGED nonRouterVars

\* rs.apis[api.Name] = api, then one HandleFunc per resource; a pattern already
\* registered panics, and the deferred Unlock runs
RegisterRoutes(p) ==
    /\ ~panicked
    /\ callers[p].pc = "routes"
    /\ apis' = apis \cup {callers[p].api.Name}
    /\ IF LockedPatterns(callers[p].api) \cap Patterns(router) # {}
       THEN /\ panicked' = TRUE
            /\ mu' = Unlocked
            /\ callers' = [callers EXCEPT ![p].pc = "panicked"]
            /\ UNCHANGED router
       ELSE /\ router' = router \cup LockedRoutes(callers[p].api)
            /\ callers' = [callers EXCEPT ![p].pc = "check"]
            /\ UNCHANGED <<panicked, mu>>
    /\ UNCHANGED <<impl, answer, started, serverVars>>
    /\ UNCHANGED nonRouterVars

\* CheckStarted with the flag ignored
CheckStartedAlways(p) ==
    /\ ~panicked
    /\ callers[p].pc = "check"
    /\ callers' = [callers EXCEPT ![p].pc = "start"]
    /\ UNCHANGED <<impl, router, panicked, answer, mu, started, apis, serverVars>>
    /\ UNCHANGED nonRouterVars

\* if !rs.started
CheckStarted(p) ==
    /\ ~panicked
    /\ callers[p].pc = "check"
    /\ callers' = [callers EXCEPT ![p].pc = IF started THEN "unlock" ELSE "start"]
    /\ UNCHANGED <<impl, router, panicked, answer, mu, started, apis, serverVars>>
    /\ UNCHANGED nonRouterVars

\* startServer of part_005: the listener and the shutdown monitor are launched
\* and rs.started is set
startServer(p) ==
    /\ ~panicked
    /\ callers[p].pc = "start"
    /\ serverStarts' = serverStarts + 1
    /\ listener' = "serving"
    /\ monitor' = "waiting"
    /\ started' = TRUE
    /\ callers' = [callers EXCEPT ![p].pc = "unlock"]
    /\ UNCHANGED <<impl, router, panicked, answer, mu, apis, cancelled, inflight>>
    /\ UNCHANGED nonRouterVars

\* the deferred rs.mu.Unlock()
Unlock(p) ==
    /\ ~panicked
    /\ callers[p].pc = "unlock"
    /\ mu' = Unlocked
    /\ callers' = [callers EXCEPT ![p].pc = "done"]
    /\ UNCHANGED <<impl, router, panicked, answer, started, apis, serverVars>>
    /\ UNCHANGED nonRouterVars

\* Shutdown of part_005: rs.server.Shutdown(ctx) when the server was started
ShutdownServer(p) ==
    /\ ~panicked
    /\ callers[p].pc = "shutdown"
    /\ IF started
       THEN listener' = "closed" /\ callers' = [callers EXCEPT ![p].pc = "draining"]
       ELSE UNCHANGED listener /\ callers' = [callers EXCEPT ![p].pc = "unlock"]
    /\ UNCHANGED <<impl, router, panicked, answer, mu, started, apis,
                   serverStarts, cancelled, monitor, inflight>>
    /\ UNCHANGED nonRouterVars

\* http.Server.Shutdown returns once no request is in flight, or once its
\* context is done
ShutdownReturn(p) ==
    /\ ~panicked
    /\ callers[p].pc = "draining"
    /\ inflight = 0 \/ cancelled
    /\ callers' = [callers EXCEPT ![p].pc = "unlock"]
    /\ UNCHANGED <<impl, router, panicked, answer, mu, started, apis, serverVars>>
    /\ UNCHANGED nonRouterVars

\* the cancellation signal is set
Cancel ==
    /\ ~panicked
    /\ ~cancelled
    /\ cancelled' = TRUE
    /\ UNCHANGED <<impl, router, panicked, answer, lockVars, serverStarts, listener, monitor, inflight>>
    /\ UNCHANGED nonRouterVars

\* <-ctx.Done() returns in the monitor, which calls rs.server.Shutdown(ctx):
\* the listener is closed first
MonitorWake ==
    /\ ~panicked
    /\ monitor = "waiting"
    /\ cancelled
    /\ monitor' = "shutting"
    /\ listener' = "closed"
    /\ UNCHANGED <<impl, router, panicked, answer, lockVars, serverStarts, cancelled, inflight>>
    /\ UNCHANGED nonRouterVars

\* rs.server.Shutdown(ctx) returns in the monitor: nil when no request is in
\* flight, and ctx.Err() otherwise, the context being done already
MonitorReturn ==
    /\ ~panicked
    /\ monitor = "shutting"
    /\ monitor' = IF inflight = 0 THEN "returned nil" ELSE "returned error"
    /\ UNCHANGED <<impl, router, panicked, answer, lockVars, serverStarts, cancelled, listener, inflight>>
    /\ UNCHANGED nonRouterVars

\* the server accepts a request
AcceptRequest ==
    /\ ~panicked
    /\ listener = "serving"
    /\ inflight < MaxInflight
    /\ inflight' = inflight + 1
    /\ UNCHANGED <<impl, router, panicked, answer, lockVars, serverStarts, cancelled, listener, monitor>>
    /\ UNCHANGED nonRouterVars

\* a handler returns and its response is written
CompleteRequest ==
    /\ ~panicked
    /\ inflight > 0
    /\ inflight' = inflight - 1
    /\ UNCHANGED <<impl, router, panicked, answer, lockVars, serverStarts, cancelled, listener, monitor>>
    /\ UNCHANGED nonRouterVars

RouterNext ==
    \/ \E api \in RouterAPIs : RouterRegisterAPI(api)
    \/ StartServer
    \/ \E r \in RouterRequests(router) : MuxServeHTTP(r)
    \/ ProbeAfterPanic
    \/ \E p \in Callers, api \in LockedAPIs : CallRegisterAPI(p, api)
    \/ \E p \in Callers : CallShutdown(p)
    \/ \E p \in Callers : Lock(p)
    \/ \E p \in Callers : RegisterRoutes(p)
    \/ \E p \in Callers : CheckStarted(p)
    \/ \E p \in Callers : startServer(p)
    \/ \E p \in Callers : Unlock(p)
    \/ \E p \in Callers : ShutdownServer(p)
    \/ \E p \in Callers : ShutdownReturn(p)
    \/ Cancel
    \/ MonitorWake
    \/ MonitorReturn
    \/ AcceptRequest
    \/ CompleteRequest

RouterSpec == RouterInit /\ [][RouterNext]_vars

-----------------------------------------------------------------------------
(* API.Unmarshal: the tokens of an API definition and their decoding *)

\* most <resource> elements of an API definition
MaxResources == 2

\* most elements under an inSequence or a faultSequence
MaxElements == 2

\* every sequence over S of length at most n
SeqsUpTo(S, n) == UNION {[1..k -> S] : k \in 0..n}

RECURSIVE Concat(_)
Concat(ss) == IF ss = <<>> THEN <<>> ELSE Head(ss) \o Concat(Tail(ss))

\* xml.StartElement and xml.EndElement as decoder.Token() returns them; the
\* character data between elements is no case of any switch of the decoder
\* loops and is left out
StartElement(name, attr) == [t |-> "start", name |-> name, attr |-> attr]

EndElement(name) == [t |-> "end", name |-> name, attr |-> <<>>]

\* an attribute as written in the definition: absent when it has no value
Attr(name, value) == IF value = "" THEN <<>> ELSE <<[name |-> name, value |-> value]>>

\* for _, attr := range elem.Attr: the value of the last attribute of that name
RECURSIVE AttrValue(_, _, _)
AttrValue(attr, name, value) ==
    IF attr = <<>> THEN value
    ELSE AttrValue(Tail(attr), name,
                   IF Head(attr).name = name THEN Head(attr).value ELSE value)

\* an element as written: its name, its level attribute and the elements
\* written inside it
Element(elem, level, inner) == [elem |-> elem, level |-> level, inner |-> inner]

LogElement(level) == Element("log", level, <<>>)

\* <log level="..."/>, or an element the decoder does not know with what is
\* written inside it
ElementTokens(e) ==
    <<StartElement(e.elem, Attr("level", e.level))>>
        \o Concat([k \in DOMAIN e.inner |->
                      <<StartElement(e.inner[k].elem, Attr("level", e.inner[k].level)),
                        EndElement(e.inner[k].elem)>>])
        \o <<EndElement(e.elem)>>

\* <inSequence><sequence>...</sequence></inSequence>, or the elements directly
\* under <inSequence>
SequenceTokens(tag, s) ==
    LET elements == Concat([k \in DOMAIN s.elements |-> ElementTokens(s.elements[k])])
    IN IF s.shape = "absent" THEN <<>>
       ELSE IF s.shape = "nested"
            THEN <<StartElement(tag, <<>>), StartElement("sequence", <<>>)>> \o elements
                     \o <<EndElement("sequence"), EndElement(tag)>>
            ELSE <<StartElement(tag, <<>>)>> \o elements \o <<EndElement(tag)>>

ResourceTokens(r) ==
    <<StartElement("resource",
                   Attr("methods", r.methods) \o Attr("uri-template", r.uriTemplate))>>
        \o Concat([k \in DOMAIN r.unknown |-> ElementTokens(r.unknown[k])])
        \o SequenceTokens("inSequence", r.inSequence)
        \o SequenceTokens("faultSequence", r.faultSequence)
        \o <<EndElement("resource")>>

\* the tokens xml.NewDecoder(strings.NewReader(xmlData)) yields
Tokens(x) ==
    <<StartElement("api",
                   Attr("context", x.context) \o Attr("name", x.name)
                       \o Attr("version", x.version) \o Attr("version-type", x.versionType))>>
        \o Concat([k \in DOMAIN x.unknown |-> ElementTokens(x.unknown[k])])
        \o Concat([k \in DOMAIN x.resources |-> ResourceTokens(x.resources[k])])
        \o <<EndElement("api")>>

\* decoder.Token() returns an error after the last token
AtEOF(doc, i) == i > Len(doc)

\* decoder.Skip(): to the end element that matches the start element last read
RECURSIVE SkipFrom(_, _, _)
SkipFrom(doc, i, depth) ==
    IF AtEOF(doc, i) THEN [err |-> "EOF", next |-> i]
    ELSE IF doc[i].t = "start" THEN SkipFrom(doc, i + 1, depth + 1)
    ELSE IF depth = 0 THEN [err |-> "", next |-> i + 1]
    ELSE SkipFrom(doc, i + 1, depth - 1)

Skip(doc, i) == SkipFrom(doc, i, 0)

\* artifacts.Sequence{}
ZeroSequence == [MediatorList |-> <<>>, Position |-> ZeroPosition]

\* artifacts.Resource{}
ZeroResource ==
    [Methods |-> "", URITemplate |-> "", InSequence |-> ZeroSequence,
     FaultSequence |-> ZeroSequence]

\* LogMediator.Unmarshal: the log mediator of the element, one level below
\* the position it is given, read up to the element's end
LogMediatorUnmarshal(doc, i, start, position) ==
    LET end == Skip(doc, i)
    IN [err |-> end.err, next |-> end.next,
        mediator |-> [elem |-> "log", level |-> AttrValue(start.attr, "level", ""),
                      Position |-> [position EXCEPT !.Hierarchy = @ \o "->log"]]]

\* Sequence.unmarshal after <sequence> was read: the known mediators in
\* order, unknown elements skipped, up to </sequence>
RECURSIVE SequenceLoop(_, _, _, _)
SequenceLoop(doc, i, position, list) ==
    IF AtEOF(doc, i) THEN [err |-> "EOF", next |-> i, seq |-> ZeroSequence]
    ELSE IF doc[i].t = "end"
         THEN [err |-> "", next |-> i + 1,
               seq |-> [MediatorList |-> list, Position |-> position]]
    ELSE IF doc[i].name = "log"
         THEN LET m == LogMediatorUnmarshal(doc, i + 1, doc[i], position)
              IN IF m.err # "" THEN [err |-> m.err, next |-> m.next, seq |-> ZeroSequence]
                 ELSE SequenceLoop(doc, m.next, position, Append(list, m.mediator))
    ELSE LET s == Skip(doc, i + 1)
         IN IF s.err # "" THEN [err |-> s.err, next |-> s.next, seq |-> ZeroSequence]
            ELSE SequenceLoop(doc, s.next, position, list)

SequenceUnmarshal(doc, i, position) ==
    SequenceLoop(doc, i, [position EXCEPT !.Hierarchy = @ \o "->sequence"], <<>>)

\* the loop labelled OuterLoop of decodeSequence
RECURSIVE OuterLoop(_, _, _, _, _)
OuterLoop(doc, i, position, sequenceType, mediatorList) ==
    IF AtEOF(doc, i)
    THEN [err |-> "", next |-> i,
          seq |-> [MediatorList |-> mediatorList, Position |-> position]]
    ELSE IF doc[i].t = "start"
         THEN IF doc[i].name = "log"
              THEN LET m == LogMediatorUnmarshal(doc, i + 1, doc[i], position)
                   IN IF m.err # ""
                      THEN [err |-> m.err, next |-> m.next, seq |-> ZeroSequence]
                      ELSE OuterLoop(doc, m.next, position, sequenceType,
                                     Append(mediatorList, m.mediator))
              ELSE OuterLoop(doc, i + 1, position, sequenceType, mediatorList)
    ELSE IF doc[i].name = sequenceType
         THEN [err |-> "", next |-> i + 1,
               seq |-> [MediatorList |-> mediatorList, Position |-> position]]
    ELSE OuterLoop(doc, i + 1, position, sequenceType, mediatorList)

\* the index of the first start element from i on, 0 when there is none
RECURSIVE NextStartElement(_, _)
NextStartElement(doc, i) ==
    IF AtEOF(doc, i) THEN 0
    ELSE IF doc[i].t = "start" THEN i
    ELSE NextStartElement(doc, i + 1)

\* Resource.decodeSequence after <inSequence> or <faultSequence> was read
decodeSequence(doc, i, position, sequenceType, res) ==
    LET here  == [FileName |-> position.FileName,
                  Hierarchy |-> position.Hierarchy \o "->" \o res.URITemplate
                                    \o "->" \o sequenceType]
        k     == NextStartElement(doc, i)
        named == IF here.Hierarchy = "" THEN [here EXCEPT !.Hierarchy = sequenceType]
                 ELSE here
    IN IF k = 0 THEN [err |-> "EOF", next |-> Len(doc) + 1, seq |-> ZeroSequence]
       ELSE IF doc[k].name = "sequence" THEN SequenceUnmarshal(doc, k + 1, here)
       ELSE IF doc[k].name = "log"
            THEN LET m == LogMediatorUnmarshal(doc, k + 1, doc[k], named)
                 IN IF m.err # ""
                    THEN [err |-> m.err, next |-> m.next, seq |-> ZeroSequence]
                    ELSE OuterLoop(doc, m.next, named, sequenceType, <<m.mediator>>)
       ELSE OuterLoop(doc, k + 1, named, sequenceType, <<>>)

\* the token loop of Resource.Unmarshal: its case xml.EndElement breaks out of
\* the switch only, so the loop ends when decoder.Token() fails
RECURSIVE ResourceLoop(_, _, _, _)
ResourceLoop(doc, i, position, res) ==
    IF AtEOF(doc, i) THEN [err |-> "", next |-> i, res |-> res]
    ELSE IF doc[i].t = "start"
         THEN IF doc[i].name \in {"inSequence", "faultSequence"}
              THEN LET d == decodeSequence(doc, i + 1, position, doc[i].name, res)
                   IN IF d.err # ""
                      THEN [err |-> d.err, next |-> d.next, res |-> ZeroResource]
                      ELSE ResourceLoop(doc, d.next, position,
                                        IF doc[i].name = "inSequence"
                                        THEN [res EXCEPT !.InSequence = d.seq]
                                        ELSE [res EXCEPT !.FaultSequence = d.seq])
              ELSE LET s == Skip(doc, i + 1)
                   IN IF s.err # ""
                      THEN [err |-> s.err, next |-> s.next, res |-> ZeroResource]
                      ELSE ResourceLoop(doc, s.next, position, res)
    ELSE ResourceLoop(doc, i + 1, position, res)

\* Resource.Unmarshal after <resource> was read
ResourceUnmarshal(doc, i, start, position) ==
    ResourceLoop(doc, i, position,
                 [ZeroResource EXCEPT !.Methods = AttrValue(start.attr, "methods", ""),
                                      !.URITemplate = AttrValue(start.attr, "uri-template", "")])

\* newAPI.Resources = append(api.Resources, res): the receiver's resources
ResourceAppended(api, newAPI, res) ==
    [newAPI EXCEPT !.Resources = Append(api.Resources, res)]

\* the token loop of API.Unmarshal
RECURSIVE APILoop(_, _, _, _)
APILoop(doc, i, api, newAPI) ==
    IF AtEOF(doc, i) THEN [err |-> "", api |-> newAPI]
    ELSE IF doc[i].t = "start"
         THEN IF doc[i].name = "api"
              THEN APILoop(doc, i + 1, api,
                      [newAPI EXCEPT
                          !.Context = AttrValue(doc[i].attr, "context", @),
                          !.Name = AttrValue(doc[i].attr, "name", @),
                          !.Position.Hierarchy = AttrValue(doc[i].attr, "name", @),
                          !.Version = AttrValue(doc[i].attr, "version", @),
                          !.VersionType = AttrValue(doc[i].attr, "version-type", @)])
              ELSE IF doc[i].name = "resource"
              THEN LET r == ResourceUnmarshal(doc, i + 1, doc[i], newAPI.Position)
                   IN IF r.err # "" THEN [err |-> r.err, api |-> ZeroAPI]
                      ELSE APILoop(doc, r.next, api, ResourceAppended(api, newAPI, r.res))
              ELSE LET s == Skip(doc, i + 1)
                   IN IF s.err # "" THEN [err |-> s.err, api |-> ZeroAPI]
                      ELSE APILoop(doc, s.next, api, newAPI)
    ELSE APILoop(doc, i + 1, api, newAPI)

\* Validate that returns the API it rejects
ValidateKeepingAPI(newAPI) ==
    LET hasVersion     == newAPI.Version # ""
        hasVersionType == newAPI.VersionType # ""
    IN IF newAPI.Context = ""
       THEN [api |-> newAPI, err |-> "API context is required"]
       ELSE IF ~HasPrefix(newAPI.Context, "/")
       THEN [api |-> newAPI, err |-> "API context must begin with '/' character"]
       ELSE IF newAPI.Name = ""
       THEN [api |-> newAPI, err |-> "API name is required"]
       ELSE IF hasVersion # hasVersionType
       THEN [api |-> newAPI, err |-> "both version and version-type must be specified together"]
       ELSE IF hasVersionType /\ newAPI.VersionType # "context" /\ newAPI.VersionType # "url"
       THEN [api |-> newAPI, err |-> "version-type must be either 'context' or 'url', got: " \o newAPI.VersionType]
       ELSE [api |-> newAPI, err |-> ""]

\* the validation checks of API.Unmarshal
Validate(newAPI) ==
    LET hasVersion     == newAPI.Version # ""
        hasVersionType == newAPI.VersionType # ""
    IN IF newAPI.Context = ""
       THEN [api |-> ZeroAPI, err |-> "API context is required"]
       ELSE IF ~HasPrefix(newAPI.Context, "/")
       THEN [api |-> ZeroAPI, err |-> "API context must begin with '/' character"]
       ELSE IF newAPI.Name = ""
       THEN [api |-> ZeroAPI, err |-> "API name is required"]
       ELSE IF hasVersion # hasVersionType
       THEN [api |-> ZeroAPI, err |-> "both version and version-type must be specified together"]
       ELSE IF hasVersionType /\ newAPI.VersionType # "context" /\ newAPI.VersionType # "url"
       THEN [api |-> ZeroAPI, err |-> "version-type must be either 'context' or 'url', got: " \o newAPI.VersionType]
       ELSE [api |-> newAPI, err |-> ""]

\* API.Unmarshal(xmlData, position) on the receiver api
APIUnmarshal(api, doc, position) ==
    LET r == APILoop(doc, 1, api, [ZeroAPI EXCEPT !.Position = position])
    IN IF r.err # "" THEN [api |-> ZeroAPI, err |-> r.err] ELSE Validate(r.api)

\* api := &API{}
Receiver == [Resources |-> <<>>]

\* the position the tests hand to Unmarshal
BasePosition == [FileName |-> "testfile.xml", Hierarchy |-> ""]

\* the elements written under a sequence: two log mediators and an element
\* the decoder does not know, empty or with a log element inside it
ElementDecls ==
    {LogElement("full"), LogElement("error"), Element("foo", "", <<>>),
     Element("foo", "", <<LogElement("error")>>)}

NoSequenceDecl == [shape |-> "absent", elements |-> <<>>]

SequenceDecl(shape, elements) == [shape |-> shape, elements |-> elements]

SequenceDecls ==
    {NoSequenceDecl} \cup
    {SequenceDecl(shape, elements) :
        shape \in {"nested", "direct"}, elements \in SeqsUpTo(ElementDecls, MaxElements)}

ResourceDecl(methods, uriTemplate, inSequence, faultSequence) ==
    [methods |-> methods, uriTemplate |-> uriTemplate, unknown |-> <<>>,
     inSequence |-> inSequence, faultSequence |-> faultSequence]

\* the resource of TestAPI_Unmarshal, the one of
\* TestAPI_UnmarshalWithNestedSequence, and one without sequences
ResourceDecls ==
    {ResourceDecl("GET", "/resource1",
                  SequenceDecl("nested", <<LogElement("full")>>),
                  SequenceDecl("nested", <<LogElement("error")>>)),
     ResourceDecl("POST", "/resource2",
                  SequenceDecl("nested", <<LogElement("full")>>),
                  SequenceDecl("direct", <<LogElement("error")>>)),
     ResourceDecl("PUT", "/resource3", NoSequenceDecl, NoSequenceDecl)}

APIDecl(context, name, version, versionType, resources) ==
    [context |-> context, name |-> name, version |-> version,
     versionType |-> versionType, unknown |-> <<>>, resources |-> resources]

\* the attributes of <api>: present, absent and ill-formed ones
AttributeInputs ==
    {APIDecl(context, name, v[1], v[2], resources) :
        context \in {"", "test", "/test"},
        name \in {"", "TestAPI"},
        v \in {<<"", "">>, <<"v1", "url">>, <<"v1", "context">>, <<"v1", "">>,
               <<"", "url">>, <<"v1", "uri">>},
        resources \in SeqsUpTo({ResourceDecl("PUT", "/resource3", NoSequenceDecl, NoSequenceDecl)}, 1)}

\* valid definitions with up to MaxResources resources
ResourceInputs ==
    {APIDecl("/test", "TestAPI", "", "", resources) :
        resources \in SeqsUpTo(ResourceDecls, MaxResources)}

\* valid definitions of one resource with every shape of its two sequences
SequenceInputs ==
    {APIDecl("/test", "TestAPI", "", "",
             <<ResourceDecl("GET", "/resource1", inSequence, faultSequence)>>) :
        inSequence \in SequenceDecls, faultSequence \in SequenceDecls}

\* elements the decoder does not know, with a known element inside
UnknownDecls ==
    {Element("description", "", <<>>),
     Element("description", "", <<Element("resource", "", <<>>)>>),
     Element("handlers", "", <<Element("inSequence", "", <<>>)>>)}

\* valid definitions with an unknown element under <api>, under <resource>,
\* or under both
UnknownInputs ==
    {[APIDecl("/test", "TestAPI", "", "", <<[r EXCEPT !.unknown = inResource]>>)
         EXCEPT !.unknown = inAPI] :
        r \in ResourceDecls,
        inAPI \in SeqsUpTo(UnknownDecls, 1),
        inResource \in SeqsUpTo(UnknownDecls, 1)}

XMLInputs == AttributeInputs \cup ResourceInputs \cup SequenceInputs \cup UnknownInputs

ParserInit ==
    /\ RequestInit
    /\ RouterIdle
    /\ xmlData \in XMLInputs
    /\ parsed = NotParsed
    /\ PayloadIdle

\* result, err := api.Unmarshal(xmlData, position)
Unmarshal ==
    /\ parsed = NotParsed
    /\ parsed' = APIUnmarshal(Receiver, Tokens(xmlData), BasePosition)
    /\ UNCHANGED xmlData
    /\ UNCHANGED nonParserVars

ParserNext == Unmarshal

ParserSpec == ParserInit /\ [][ParserNext]_vars

-----------------------------------------------------------------------------
(* Claims *)

IsIn(e) == e.mediator[1] = "in"

IsFault(e) == e.mediator[1] = "fault"

InExecuted == SelectSeq(executed, IsIn)

FaultExecuted == SelectSeq(executed, IsFault)

Last(s) == s[Len(s)]

InFailed == InExecuted # <<>> /\ MediatorFailed(Last(InExecuted).res)

FaultFailed == FaultExecuted # <<>> /\ MediatorFailed(Last(FaultExecuted).res)

IsAPI == served.Kind = "api"

\* C1: the mediators of the in-sequence are executed in declared order, none
\* twice and none skipped; after a mediator that returned continue=false or an
\* error no later mediator of the in-sequence is executed; when every mediator
\* returned continue=true, each was executed exactly once and Mediate succeeds.
C1_InSequenceOrder ==
    IsAPI =>
        /\ executed = InExecuted \o FaultExecuted
        /\ Len(InExecuted) <= Len(served.Resource.InSequence)
        /\ \A k \in 1..Len(InExecuted) :
              /\ InExecuted[k].mediator = served.Resource.InSequence[k]
              /\ (k < Len(InExecuted) => ~MediatorFailed(InExecuted[k].res))
        /\ (mediated # "pending" /\ ~InFailed) =>
              /\ Len(InExecuted) = Len(served.Resource.InSequence)
              /\ FaultExecuted = <<>>
              /\ mediated = "success"

\* C1 witness: the first of two in-sequence mediators failed and the request
\* was answered without the second having run.
C1_Witness ==
    /\ IsAPI
    /\ pc = "done"
    /\ Len(served.Resource.InSequence) = 2
    /\ Len(InExecuted) = 1
    /\ InFailed

C2_State ==
    IsAPI =>
        /\ FaultExecuted # <<>> => InFailed
        /\ (pc = "mediate" /\ seqName = "fault") =>
              /\ InFailed
              /\ msgContext.Properties = createMsgContext(served.Resource, req).Properties
        /\ \A k \in 1..Len(FaultExecuted) :
              /\ FaultExecuted[k].mediator = served.Resource.FaultSequence[k]
              /\ (k < Len(FaultExecuted) => ~MediatorFailed(FaultExecuted[k].res))
        /\ (mediated # "pending" /\ InFailed) =>
              \/ FaultFailed
              \/ Len(FaultExecuted) = Len(served.Resource.FaultSequence)
        /\ FaultFailed =>
              /\ pc \in {"write", "done"}
              /\ mediated = "failure"
              /\ (pc = "done" =>
                    /\ w.status = StatusInternalServerError
                    /\ w.body = "Internal server error\n")

C2_Step ==
    (pc = "mediate" /\ pc' \in {"mediate", "write"}) =>
        /\ msgContext' \in {ApplyEffect(eff, msgContext) : eff \in MediatorEffects}
        /\ (seqName = "in" /\ executed' # executed /\ MediatorFailed(Last(executed').res)) =>
              /\ pc' = "mediate"
              /\ seqName' = "fault"
              /\ idx' = 1

ContextCopied ==
    /\ \A k \in DOMAIN msgContext.Headers : Get(w.header, k) = msgContext.Headers[k]
    /\ w.body = IF msgContext.RawPayload # NilPayload THEN msgContext.RawPayload ELSE ""

NothingOfContextWritten ==
    /\ \A k \in DOMAIN msgContext.Headers : Get(w.header, k) # msgContext.Headers[k]
    /\ w.body # msgContext.RawPayload

\* C3: once the resource handler has answered, the response holds the context's
\* headers and its raw payload exactly when Mediate returned success; when it
\* returned failure the response is the generic 500 with none of the context's
\* headers and not its payload.
C3_ResponseIffSuccess ==
    (IsAPI /\ pc = "done" /\ mediated # "pending") =>
        /\ mediated = "success" => (w.status = StatusOK /\ ContextCopied)
        /\ mediated = "failure" =>
              /\ w.status = StatusInternalServerError
              /\ w.body = "Internal server error\n"
              /\ NothingOfContextWritten

\* C3 witness: mediation failed on a context that carries a payload and a
\* header, and the answer is the 500.
C3_Witness ==
    /\ IsAPI
    /\ pc = "done"
    /\ mediated = "failure"
    /\ msgContext.RawPayload = "Test response"
    /\ "Content-Type" \in DOMAIN msgContext.Headers
    /\ w.status = StatusInternalServerError

\* C4: a request answered 400 (query-parameter validation) or 403 (CORS origin
\* check) has had no mediator of either sequence executed, no message context
\* built and no call of Mediate.
C4_RejectedBeforeMediation ==
    (served.Kind # "none" /\ w.status \in {StatusBadRequest, StatusForbidden}) =>
        /\ pc = "done"
        /\ executed = <<>>
        /\ mediated = "pending"
        /\ msgContext = NoMsgContext

\* C4 witness: a 400 from a resource whose in-sequence has mediators.
C4_Witness ==
    /\ IsAPI
    /\ pc = "done"
    /\ w.status = StatusBadRequest
    /\ Len(served.Resource.InSequence) > 0

Declared == DOMAIN served.Resource.QueryParameters

Undeclared == req.keys \ Declared

Missing == Declared \ req.keys

\* the query-parameter middleware called the resource handler
Forwarded ==
    \/ pc \in {"resource", "mediate", "write"}
    \/ pc = "done" /\ mediated # "pending"

Rejected400 == pc = "done" /\ w.status = StatusBadRequest

UnsupportedBodies == {"Unsupported query parameter: " \o k \o "\n" : k \in Undeclared}

MissingBodies == {"Missing required query parameter: " \o k \o "\n" : k \in Missing}

\* C5 as stated: forwarded iff the key sets are equal (or nothing is declared),
\* every request with an undeclared key answered 400 "unsupported query
\* parameter" and every request with a missing declared key answered 400
\* "missing required query parameter".
C5_Original ==
    (IsAPI /\ (Forwarded \/ Rejected400)) =>
        /\ Forwarded <=> (Declared = {} \/ req.keys = Declared)
        /\ (Declared # {} /\ Undeclared # {}) => (Rejected400 /\ w.body \in UnsupportedBodies)
        /\ (Declared # {} /\ Missing # {}) => (Rejected400 /\ w.body \in MissingBodies)

\* C5 (amended): a request that reaches the query-parameter middleware is
\* forwarded iff nothing is declared or its key set equals the declared key
\* set; otherwise it is answered 400, naming an undeclared key as "unsupported
\* query parameter" whenever there is one, and naming a missing declared key
\* as "missing required query parameter" only when no key is undeclared.
C5_QueryParamContract ==
    (IsAPI /\ (Forwarded \/ Rejected400)) =>
        /\ Forwarded <=> (Declared = {} \/ req.keys = Declared)
        /\ ~Forwarded => Rejected400
        /\ (Declared # {} /\ Undeclared # {}) => (Rejected400 /\ w.body \in UnsupportedBodies)
        /\ (Declared # {} /\ Undeclared = {} /\ Missing # {}) =>
              (Rejected400 /\ w.body \in MissingBodies)

\* C5 witness: a request with an undeclared key and without the declared one,
\* answered 400 for the undeclared key.
C5_Witness ==
    /\ IsAPI
    /\ Rejected400
    /\ Undeclared # {}
    /\ Missing # {}
    /\ w.body \in UnsupportedBodies

ACAO == "Access-Control-Allow-Origin"

CORSHeaderNames ==
    {ACAO, "Access-Control-Allow-Methods", "Access-Control-Allow-Headers",
     "Access-Control-Max-Age", "Access-Control-Allow-Credentials",
     "Access-Control-Expose-Headers"}

IsServed == served.Kind # "none"

\* the CORS middleware is in the chain and has run for the request in flight
CORSRan == IsServed /\ served.Wrapped /\ pc \notin {"idle", "cors"}

OriginAllowed == req.origin # "" /\ IsOriginAllowed(served.CORSConfig, req.origin)

\* C6: Access-Control-Allow-Origin is set exactly for a request with an allowed
\* Origin under an enabled configuration; its value is the request's origin
\* when allowCredentials is true, also when the allow-list holds "*", and
\* otherwise "*" if the allow-list holds "*" and the request's origin if not.
C6_AllowOrigin ==
    IsServed =>
        /\ (CORSRan /\ served.CORSConfig.Enabled /\ OriginAllowed) => ACAO \in DOMAIN w.header
        /\ ACAO \in DOMAIN w.header =>
              /\ served.CORSConfig.Enabled /\ OriginAllowed
              /\ served.CORSConfig.AllowCredentials => w.header[ACAO] = req.origin
              /\ (~served.CORSConfig.AllowCredentials /\ Contains(served.CORSConfig.AllowOrigins, "*"))
                    => w.header[ACAO] = "*"
              /\ (~served.CORSConfig.AllowCredentials /\ ~Contains(served.CORSConfig.AllowOrigins, "*"))
                    => w.header[ACAO] = req.origin

\* C6 witness: credentials allowed, "*" in the allow-list, the origin echoed.
C6_Witness ==
    /\ IsServed
    /\ served.CORSConfig.AllowCredentials
    /\ Contains(served.CORSConfig.AllowOrigins, "*")
    /\ ACAO \in DOMAIN w.header
    /\ w.header[ACAO] = req.origin

\* C7: with CORS enabled, a request whose Origin is present and not allowed is
\* answered 403 at once: the wrapped handler is not called, no mediator runs
\* and the response carries no Access-Control-* header.
C7_DisallowedOrigin ==
    (CORSRan /\ served.CORSConfig.Enabled /\ req.origin # "" /\ ~OriginAllowed) =>
        /\ pc = "done"
        /\ w.status = StatusForbidden
        /\ w.body = "CORS: Origin not allowed\n"
        /\ handlerCalls = 0
        /\ executed = <<>>
        /\ (DOMAIN w.header) \cap CORSHeaderNames = {}

\* C7 witness: a 403 for an origin the allow-list does not hold.
C7_Witness ==
    /\ CORSRan
    /\ served.CORSConfig.Enabled
    /\ req.origin = "http://b.com"
    /\ served.CORSConfig.AllowOrigins = <<"http://a.com">>
    /\ w.status = StatusForbidden

\* C8: with the configuration disabled, or no Origin header on the request,
\* the wrapped handler is called exactly once with the response untouched, no
\* Access-Control-* header is ever added, and the handler's status and body
\* are the response, for every method and every allow-list.
C8_PassThrough ==
    (IsServed /\ pc \notin {"idle", "cors"} /\ (~served.CORSConfig.Enabled \/ req.origin = "")) =>
        /\ handlerCalls = 1
        /\ (DOMAIN w.header) \cap CORSHeaderNames = {}
        /\ pc = "handler" => w = NewResponseWriter
        /\ (served.Kind = "test" /\ pc = "done") =>
              (w.status = StatusOK /\ w.body = "test response")

\* C8 witness: an OPTIONS request without Origin through an enabled middleware,
\* answered by the wrapped handler.
C8_Witness ==
    /\ IsServed
    /\ served.Kind = "test"
    /\ served.CORSConfig.Enabled
    /\ req.method = MethodOptions
    /\ req.origin = ""
    /\ pc = "done"
    /\ w.status = StatusOK

\* C9: with CORS enabled and an allowed Origin, an OPTIONS request is answered
\* 204 with no body and the wrapped handler is not called; Allow-Methods is the
\* configured list, Allow-Headers is the request's
\* Access-Control-Request-Headers when present and the configured list if not,
\* Max-Age is the configured age when positive and Allow-Credentials is "true"
\* when credentials are allowed (an empty list or a zero age sets no header).
C9_Preflight ==
    (CORSRan /\ served.CORSConfig.Enabled /\ OriginAllowed /\ req.method = MethodOptions) =>
        /\ pc = "done"
        /\ w.status = StatusNoContent
        /\ w.body = ""
        /\ handlerCalls = 0
        /\ executed = <<>>
        /\ Get(w.header, "Access-Control-Allow-Methods") = Join(served.CORSConfig.AllowMethods, ", ")
        /\ Get(w.header, "Access-Control-Allow-Headers") =
              IF req.acrh # "" THEN req.acrh ELSE Join(served.CORSConfig.AllowHeaders, ", ")
        /\ Get(w.header, "Access-Control-Max-Age") =
              IF served.CORSConfig.MaxAge > 0 THEN ToString(served.CORSConfig.MaxAge) ELSE ""
        /\ Get(w.header, "Access-Control-Allow-Credentials") =
              IF served.CORSConfig.AllowCredentials THEN "true" ELSE ""
        /\ "Access-Control-Expose-Headers" \notin DOMAIN w.header

\* C9 witness: a preflight that names its headers, under a configuration with
\* an allow-list of headers, answered 204 with the request's headers echoed.
C9_Witness ==
    /\ CORSRan
    /\ served.CORSConfig.Enabled
    /\ req.method = MethodOptions
    /\ req.acrh # ""
    /\ served.CORSConfig.AllowHeaders # <<>>
    /\ served.CORSConfig.AllowCredentials
    /\ w.status = StatusNoContent
    /\ Get(w.header, "Access-Control-Allow-Headers") = req.acrh

-----------------------------------------------------------------------------
(* Claims on the RouterService *)

IsServiceRouter == impl = "service.go"

Occurs(s, token, i) ==
    i + Len(token) - 1 <= Len(s) /\ SubSeq(s, i, i + Len(token) - 1) = token

\* s with its first occurrence of "{version}" replaced by v, s itself without one
FirstTokenReplaced(s, v) ==
    IF \A i \in 1..Len(s) : ~Occurs(s, versionPattern, i) THEN s
    ELSE LET i == CHOOSE k \in 1..Len(s) :
                     /\ Occurs(s, versionPattern, k)
                     /\ \A j \in 1..(k - 1) : ~Occurs(s, versionPattern, j)
         IN SubSeq(s, 1, i - 1) \o v \o SubSeq(s, i + Len(versionPattern), Len(s))

\* the base path as C11 states it
StatedBasePath(api) ==
    LET stripped == IF HasSuffix(api.Context, "/")
                    THEN SubSeq(api.Context, 1, Len(api.Context) - 1)
                    ELSE api.Context
    IN IF api.Version # "" /\ api.VersionType # ""
       THEN IF api.VersionType = "url" THEN stripped \o "/" \o api.Version
            ELSE IF api.VersionType = "context" THEN FirstTokenReplaced(stripped, api.Version)
            ELSE stripped
       ELSE stripped

\* C11: the base path an API is mounted under is its context with a single
\* trailing "/" stripped and then, when version and versionType are both set,
\* with "/"+version appended (versionType "url") or with the first occurrence
\* of "{version}" replaced by the version (versionType "context"); a context
\* without the token is mounted unchanged, and its registration succeeds.
C11_BasePath ==
    IsServiceRouter =>
        /\ \A e \in router : e.kind = "api" => e.pattern = StatedBasePath(e.api) \o "/"
        /\ \A api \in RegisteredAPIs(router) :
              (/\ api.VersionType = "context"
               /\ Index(api.Context, versionPattern) = 0
               /\ Cardinality(RegisteredAPIs(router)) = 1
               /\ LivezRoute \notin router)
              => api \in MountedAPIs(router)

\* the last request was on <basePath><pathTemplate> of resource i of api
OnResourcePath(api, i) ==
    /\ answer.kind \notin {"none", "refused"}
    /\ answer.req.path = BasePath(api) \o api.Resources[i].PathTemplate

DispatchedTo(api, i) ==
    answer.kind = "resource" /\ answer.api = api /\ answer.resource = i

\* C12: once RegisterAPI(api) has returned, a request with method m on
\* <basePath><pathTemplate> of a resource of the api is dispatched to that
\* resource's handler if and only if m is one of the resource's declared
\* methods; the (method, resource) pairs of the api are so many distinct routes.
C12_Dispatch ==
    IsServiceRouter =>
        \A api \in MountedAPIs(router) :
            /\ ~SubRouterConflict(api)
            /\ \A i \in DOMAIN api.Resources :
                  OnResourcePath(api, i) =>
                      (DispatchedTo(api, i) <=> Contains(api.Resources[i].Methods, answer.req.method))


IsLockedRouter == impl = "part_005"

Inside(p) == callers[p].pc \in InsideSection

RegistrationDone(p) == callers[p].op = "RegisterAPI" /\ callers[p].pc = "done"

\* some RegisterAPI call has reached the route table
RegistrationSeen ==
    IF IsLockedRouter THEN apis # {} ELSE RegisteredAPIs(router) # {}

CalledAfterCancellation(p) == callers[p].op = "RegisterAPI" /\ callers[p].ctxDone

\* C15: a RegisterAPI call made after the cancellation signal was set adds its
\* routes and returns, and no step of it starts a server, the first
\* registration on the RouterService included
C15_AfterCancellation ==
    [][\A p \in Callers :
          CalledAfterCancellation(p) =>
             /\ callers[p].pc = "start" /\ callers'[p].pc # "start"
                   => serverStarts' = serverStarts
             /\ callers'[p].pc = "done"
                   => LockedRoutes(callers[p].api) \subseteq router']_vars


MonitorReturned == monitor \in {"returned nil", "returned error"}

\* C16: once the shutdown call of the monitor has returned, no request that
\* was in flight when the server stopped accepting is still being served
C16_DrainedBeforeReturn == MonitorReturned => inflight = 0


\* C17: once the server has started GET /livez is answered 200 with status
\* "UP", and no registered API takes the /livez pattern away from the
\* liveness handler or stops it being registered
C17_LivezAlwaysUp ==
    IsServiceRouter =>
        /\ serverStarts > 0 =>
              ServeMuxAnswer(router, LivezProbe) = LivezAnswer(LivezProbe)
        /\ LivezRoute.pattern \in Patterns(router) => LivezRoute \in router


-----------------------------------------------------------------------------
(* Claims on API.Unmarshal *)

Unmarshalled == parsed # NotParsed

\* the definition breaks a rule on the attributes of <api>
InvalidDecl(x) ==
    \/ x.context = ""
    \/ ~HasPrefix(x.context, "/")
    \/ x.name = ""
    \/ (x.version = "") # (x.versionType = "")
    \/ x.versionType \notin {"", "context", "url"}

ResourceReproduced(k) ==
    /\ parsed.api.Resources[k].Methods = xmlData.resources[k].methods
    /\ parsed.api.Resources[k].URITemplate = xmlData.resources[k].uriTemplate

\* C19: for a valid API definition with N <resource> elements Unmarshal
\* succeeds and returns N resources, in declared order, each with the methods
\* and the URI template of its element
C19_ResourcesReproduced ==
    Unmarshalled /\ ~InvalidDecl(xmlData) =>
        /\ parsed.err = ""
        /\ Len(parsed.api.Resources) = Len(xmlData.resources)
        /\ \A k \in DOMAIN xmlData.resources : ResourceReproduced(k)


\* the definition with the elements of its in-sequence written directly under
\* <inSequence>
DirectTwin(x) == [x EXCEPT !.resources[1].inSequence.shape = "direct"]

\* the same mediators in the same order, the nested form one "->sequence"
\* deeper in the position hierarchy
SameMediators(nested, direct) ==
    /\ Len(nested.MediatorList) = Len(direct.MediatorList)
    /\ nested.Position.Hierarchy = direct.Position.Hierarchy \o "->sequence"
    /\ \A k \in DOMAIN nested.MediatorList :
          /\ nested.MediatorList[k].elem = direct.MediatorList[k].elem
          /\ nested.MediatorList[k].level = direct.MediatorList[k].level
          /\ nested.MediatorList[k].Position.Hierarchy =
                direct.Position.Hierarchy \o "->sequence->log"
          /\ direct.MediatorList[k].Position.Hierarchy =
                direct.Position.Hierarchy \o "->log"

\* C20: when a definition whose in-sequence is written inside <sequence> has
\* parsed, the definition with the same elements written directly under
\* <inSequence> parses to an in-sequence with an equal mediator list, the
\* position hierarchy of the nested form having the extra "->sequence"
C20_TwoShapes ==
    /\ Unmarshalled
    /\ ~InvalidDecl(xmlData)
    /\ Len(xmlData.resources) = 1
    /\ xmlData.resources[1].inSequence.shape = "nested"
    /\ parsed.err = ""
    => LET twin == APIUnmarshal(Receiver, Tokens(DirectTwin(xmlData)), BasePosition)
       IN /\ twin.err = ""
          /\ Len(twin.api.Resources) = 1
          /\ SameMediators(parsed.api.Resources[1].InSequence,
                           twin.api.Resources[1].InSequence)


KnownMediators == {"log"}

\* the elements of a list the decoder knows as mediators
RECURSIVE KnownOnly(_)
KnownOnly(elements) ==
    IF elements = <<>> THEN <<>>
    ELSE IF Head(elements).elem \in KnownMediators
         THEN <<Head(elements)>> \o KnownOnly(Tail(elements))
         ELSE KnownOnly(Tail(elements))

HasUnknown(x) ==
    \/ x.unknown # <<>>
    \/ \E k \in DOMAIN x.resources :
          \/ x.resources[k].unknown # <<>>
          \/ \E sq \in {x.resources[k].inSequence, x.resources[k].faultSequence} :
                KnownOnly(sq.elements) # sq.elements

\* the definition with every unknown element taken out
WithoutUnknown(x) ==
    [x EXCEPT !.unknown = <<>>,
              !.resources = [k \in DOMAIN x.resources |->
                                [x.resources[k] EXCEPT
                                    !.unknown = <<>>,
                                    !.inSequence.elements = KnownOnly(@),
                                    !.faultSequence.elements = KnownOnly(@)]]]

\* C21: a definition with unknown elements under api, under resource or
\* inside a sequence parses without error to what the same definition
\* without those elements, and without what is nested in them, parses to
C21_UnknownSkipped ==
    Unmarshalled /\ HasUnknown(xmlData) /\ ~InvalidDecl(xmlData) =>
        /\ parsed.err = ""
        /\ parsed = APIUnmarshal(Receiver, Tokens(WithoutUnknown(xmlData)), BasePosition)


\* a sequence element is written and has no element under it
WrittenEmpty(sq) == sq.shape # "absent" /\ sq.elements = <<>>

\* C28: a definition whose first resource has an inSequence or a
\* faultSequence with no element under it parses without error, and that
\* sequence has an empty mediator list, whatever follows it
C28_OwnEndTag ==
    /\ Unmarshalled
    /\ ~InvalidDecl(xmlData)
    /\ xmlData.resources # <<>>
    /\ \/ WrittenEmpty(xmlData.resources[1].inSequence)
       \/ WrittenEmpty(xmlData.resources[1].faultSequence)
    => /\ parsed.err = ""
       /\ WrittenEmpty(xmlData.resources[1].inSequence)
             => parsed.api.Resources[1].InSequence.MediatorList = <<>>
       /\ WrittenEmpty(xmlData.resources[1].faultSequence)
             => parsed.api.Resources[1].FaultSequence.MediatorList = <<>>


\* C29: after any sequence of RegisterAPI calls the top-level router holds,
\* of every API, both its documentation route and its base-path mount or
\* neither of them
C29_AllOrNothing ==
    IsServiceRouter =>
        \A api \in RouterAPIs :
            SwaggerRoute(api) \in router <=> MountRoute(api) \in router

-----------------------------------------------------------------------------
(* Payloads and the expression engine *)

\* the longest chain of pipe segments an expression is given
MaxPipes == 2

xpathPrefix == "xpath:"

jsonpathPrefix == "jsonpath:"

\* strings.Split(s, sep), read from position i on
RECURSIVE SplitFrom(_, _, _)
SplitFrom(s, sep, i) ==
    LET j == IndexFrom(s, sep, i) IN
        IF j = 0 THEN <<SubSeq(s, i, Len(s))>>
        ELSE <<SubSeq(s, i, j - 1)>> \o SplitFrom(s, sep, j + Len(sep))

Split(s, sep) == SplitFrom(s, sep, 1)

\* strings.TrimSpace, the white space being the blank
RECURSIVE TrimSpace(_)
TrimSpace(s) ==
    IF HasPrefix(s, " ") THEN TrimSpace(SubSeq(s, 2, Len(s)))
    ELSE IF HasSuffix(s, " ") THEN TrimSpace(SubSeq(s, 1, Len(s) - 1))
    ELSE s

\* strings.Fields: the maximal runs without white space
Fields(s) == SelectSeq(Split(s, " "), LAMBDA f : f # "")

TrimPrefix(s, prefix) ==
    IF HasPrefix(s, prefix) THEN SubSeq(s, Len(prefix) + 1, Len(s)) ELSE s

\* an error value as the chain errors.Unwrap walks, outermost type first; nil is the empty chain
NoError == [chain |-> <<>>, reason |-> ""]

ErrUnsupportedExpression(expression) ==
    [chain |-> <<"ErrUnsupportedExpression">>, reason |-> expression]

ErrEvaluationFailed(reason, inner) ==
    [chain |-> <<"ErrEvaluationFailed">> \o inner.chain, reason |-> reason]

ErrInvalidPayloadForOperation(operation) ==
    [chain |-> <<"ErrInvalidPayloadForOperation">>, reason |-> operation \o " requires other payload"]

\* fmt.Errorf with the verb %w
Errorf(reason, err) == [chain |-> <<"wrapError">> \o err.chain, reason |-> reason]

\* errors.As(err, kind)
ErrorAs(err, kind) == Contains(err.chain, kind)

\* a QueryResult: the dynamic type of Value, and Value written out
QueryResult(kind, value) == [Kind |-> kind, Value |-> value]

ZeroQueryResult == QueryResult("nil", "")

XMLFive == "<a>5</a>"

XMLSix == "<a>6</a>"

XMLList == "<a><b>1</b><b>2</b></a>"

JSONInner == "{\"inner\":\"<a>6</a>\"}"

JSONOuter ==
    "{\"inner\":\"<a>5</a>\",\"json\":\"{\\\"inner\\\":\\\"<a>6</a>\\\"}\",\"n\":1,\"b\":true,\"o\":{},\"l\":[1],\"z\":null}"

\* gjson: the members of each valid JSON text; a text outside the domain is not valid JSON
JSONDocuments ==
    [raw \in {JSONOuter, JSONInner, "5", "6"} |->
        IF raw = JSONOuter
        THEN [path \in {"inner", "json", "n", "b", "o", "l", "z"} |->
                CASE path = "inner" -> QueryResult("string", XMLFive)
                  [] path = "json"  -> QueryResult("string", JSONInner)
                  [] path = "n"     -> QueryResult("float64", "1")
                  [] path = "b"     -> QueryResult("bool", "true")
                  [] path = "o"     -> QueryResult("map", "{}")
                  [] path = "l"     -> QueryResult("[]interface", "[1]")
                  [] path = "z"     -> QueryResult("nil", "")]
        ELSE IF raw = JSONInner
        THEN [path \in {"inner"} |-> QueryResult("string", XMLSix)]
        ELSE [path \in {} |-> ZeroQueryResult]]

\* what the XPath expressions of the inputs select in a document with root element a
XPathResult(text, items, expression) ==
    CASE expression = "count(/a)" -> QueryResult("float64", "1")
      [] expression = "/a/text()" ->
            IF text = "" THEN ZeroQueryResult ELSE QueryResult("string", text)
      [] expression = "/a/b" ->
            IF items = "" THEN ZeroQueryResult ELSE QueryResult("[]string", items)
      [] OTHER -> ZeroQueryResult

XPaths == {"count(/a)", "/a/text()", "/a/b"}

\* xmlquery and xpath: what Query answers on each well-formed document
XMLDocuments ==
    [raw \in {XMLFive, XMLSix, XMLList} |->
        [expression \in XPaths |->
            CASE raw = XMLFive -> XPathResult("5", "", expression)
              [] raw = XMLSix  -> XPathResult("6", "", expression)
              [] raw = XMLList -> XPathResult("", "[1 2]", expression)]]

\* text without a single root element, if xmlquery.Parse lets it pass: the
\* element a that JSONInner holds is found, the bare numbers hold no element
RootlessDocuments ==
    [raw \in {JSONInner, "5", "6"} |->
        [expression \in XPaths |->
            IF raw = JSONInner THEN XPathResult("6", "", expression)
            ELSE IF expression = "count(/a)" THEN QueryResult("float64", "0")
            ELSE ZeroQueryResult]]

XMLParse(raw, rootless) ==
    IF raw \in DOMAIN XMLDocuments THEN [ok |-> TRUE, doc |-> XMLDocuments[raw]]
    ELSE IF rootless /\ raw \in DOMAIN RootlessDocuments
    THEN [ok |-> TRUE, doc |-> RootlessDocuments[raw]]
    ELSE [ok |-> FALSE, doc |-> [expression \in XPaths |-> ZeroQueryResult]]

\* the nil PayloadObject
NilPayloadObject == [contentType |-> "", raw |-> ""]

NewXMLPayload(content, rootless) ==
    IF XMLParse(content, rootless).ok
    THEN [payload |-> [contentType |-> "application/xml", raw |-> content], err |-> NoError]
    ELSE [payload |-> NilPayloadObject,
          err |-> ErrEvaluationFailed("XML parsing failed", ErrEvaluationFailed("syntax error", NoError))]

NewJSONPayload(content) ==
    IF content \in DOMAIN JSONDocuments
    THEN [payload |-> [contentType |-> "application/json", raw |-> content], err |-> NoError]
    ELSE [payload |-> NilPayloadObject,
          err |-> ErrEvaluationFailed("Invalid JSON content", NoError)]

\* a constructor's *XMLPayload or *JSONPayload returned as a PayloadObject: the
\* interface value carries the pointer's type whether or not the pointer is nil
AsPayloadObject(type, r) == [type |-> type, payload |-> r.payload, err |-> r.err]

\* PayloadFactory.CreatePayload; the content types of the inputs are in lower case
CreatePayload(rawContent, contentType, rootless) ==
    LET normalizedContentType == Split(contentType, ";")[1] IN
    CASE normalizedContentType \in {"application/xml", "text/xml"} ->
            AsPayloadObject("*XMLPayload", NewXMLPayload(rawContent, rootless))
      [] normalizedContentType = "application/json" ->
            AsPayloadObject("*JSONPayload", NewJSONPayload(rawContent))
      [] OTHER -> [type |-> "nil", payload |-> NilPayloadObject,
                   err |-> Errorf("unsupported content type: " \o contentType, NoError)]

\* JSONPayload.Query and XMLPayload.Query
Query(pld, expression, rootless) ==
    IF pld.contentType = "application/json"
    THEN IF expression \in DOMAIN JSONDocuments[pld.raw]
         THEN [Result |-> JSONDocuments[pld.raw][expression], err |-> NoError]
         ELSE [Result |-> ZeroQueryResult,
               err |-> ErrEvaluationFailed("path not found or value does not exist", NoError)]
    ELSE IF expression \in XPaths
         THEN [Result |-> XMLParse(pld.raw, rootless).doc[expression], err |-> NoError]
         ELSE [Result |-> ZeroQueryResult,
               err |-> ErrEvaluationFailed("XPath compilation failed", ErrEvaluationFailed("syntax error", NoError))]

\* evaluateSingleExpression; queried lists the payload and the query handed to Query
evaluateSingleExpression(pld, expressionPart, rootless) ==
    IF HasPrefix(expressionPart, xpathPrefix)
    THEN IF pld.contentType # "application/xml" /\ pld.contentType # "text/xml"
         THEN [Result |-> ZeroQueryResult, err |-> ErrInvalidPayloadForOperation("XPath"),
               queried |-> <<>>]
         ELSE LET actualExpr == TrimPrefix(expressionPart, xpathPrefix)
                  q == Query(pld, actualExpr, rootless) IN
                [Result |-> q.Result, err |-> q.err,
                 queried |-> <<[payload |-> pld, expression |-> actualExpr]>>]
    ELSE IF HasPrefix(expressionPart, jsonpathPrefix)
    THEN IF pld.contentType # "application/json"
         THEN [Result |-> ZeroQueryResult, err |-> ErrInvalidPayloadForOperation("JSONPath"),
               queried |-> <<>>]
         ELSE LET actualExpr == TrimPrefix(expressionPart, jsonpathPrefix)
                  q == Query(pld, actualExpr, rootless) IN
                [Result |-> q.Result, err |-> q.err,
                 queried |-> <<[payload |-> pld, expression |-> actualExpr]>>]
    ELSE [Result |-> ZeroQueryResult, err |-> ErrUnsupportedExpression(expressionPart),
          queried |-> <<>>]

\* the type assertion on the previous result, let pass whatever the type is
IsStringAlways(result) == TRUE

\* currentResult.Value.(string)
IsString(result) == result.Kind = "string"

\* the next expression evaluated against the payload Evaluate was called with
ActivePayloadOriginal(currentPayload, intermediatePayload) == currentPayload

\* activePayload = intermediatePayload
ActivePayload(currentPayload, intermediatePayload) == intermediatePayload

\* the default case answering with the evaluation error
UnknownPipeOperationFailed(pipeOperation) ==
    ErrEvaluationFailed("unknown pipe operation: " \o pipeOperation, NoError)

\* the default case of the switch on the pipe operation
UnknownPipeOperation(pipeOperation) ==
    ErrUnsupportedExpression("unknown pipe operation: " \o pipeOperation)

\* what one Evaluate call leaves: its result, its error, the payloads it
\* created, the queries it made and the result of every part it evaluated
Outcome(result, err, created, queried, results) ==
    [Result |-> result, err |-> err, created |-> created, queried |-> queried,
     results |-> results]

\* the loop of Evaluate over the parts from index i on
RECURSIVE EvaluateParts(_, _, _, _, _, _)
EvaluateParts(parts, i, currentPayload, rootless, activePayload, out) ==
    IF i > Len(parts) THEN out
    ELSE
    LET trimmedPart == TrimSpace(parts[i])
        Failed(err) == Outcome(ZeroQueryResult, err, out.created, out.queried, out.results)
    IN
    IF i = 1
    THEN LET r == evaluateSingleExpression(activePayload, trimmedPart, rootless) IN
         IF r.err # NoError
         THEN Outcome(ZeroQueryResult, Errorf("error in expression part", r.err),
                      out.created, out.queried \o r.queried, out.results)
         ELSE EvaluateParts(parts, i + 1, currentPayload, rootless, activePayload,
                  Outcome(r.Result, NoError, out.created, out.queried \o r.queried,
                          Append(out.results, r.Result)))
    ELSE
    IF ~IsString(out.Result)
    THEN Failed(ErrEvaluationFailed("requires string input from previous step", NoError))
    ELSE
    LET prevResultStr == out.Result.Value
        pipeAndNextExpr == Fields(trimmedPart)
    IN
    IF Len(pipeAndNextExpr) < 2
    THEN Failed(ErrEvaluationFailed("invalid pipe operation format", NoError))
    ELSE
    LET pipeOperation == pipeAndNextExpr[1]
        nextExpression == Join(Tail(pipeAndNextExpr), " ")
    IN
    IF pipeOperation \notin {"extractAsJSON", "extractAsXML"}
    THEN Failed(UnknownPipeOperation(pipeOperation))
    ELSE
    LET c == CreatePayload(prevResultStr,
                           IF pipeOperation = "extractAsJSON" THEN "application/json"
                           ELSE "application/xml", rootless)
    IN
    IF c.err # NoError
    THEN Failed(ErrEvaluationFailed("failed to create intermediate payload", c.err))
    ELSE
    LET newActive == ActivePayload(currentPayload, c.payload)
        r == evaluateSingleExpression(newActive, nextExpression, rootless)
        created == Append(out.created, c.payload)
    IN
    IF r.err # NoError
    THEN Outcome(ZeroQueryResult, Errorf("error in chained expression part", r.err),
                 created, out.queried \o r.queried, out.results)
    ELSE EvaluateParts(parts, i + 1, currentPayload, rootless, newActive,
             Outcome(r.Result, NoError, created, out.queried \o r.queried,
                     Append(out.results, r.Result)))

\* ExpressionEngine.Evaluate
Evaluate(currentPayload, fullExpression, rootless) ==
    EvaluateParts(Split(fullExpression, "|"), 1, currentPayload, rootless, currentPayload,
                  Outcome(ZeroQueryResult, NoError, <<>>, <<>>, <<>>))

\* the payloads Evaluate is called with
Payloads ==
    {[contentType |-> "application/json", raw |-> JSONOuter],
     [contentType |-> "application/xml", raw |-> XMLFive],
     [contentType |-> "application/xml", raw |-> XMLList]}

FirstParts ==
    {"jsonpath:inner", "jsonpath:json", "jsonpath:n", "jsonpath:b", "jsonpath:o",
     "jsonpath:l", "jsonpath:z", "jsonpath:missing", "xpath:/a/text()", "xpath:/a/b",
     "xpath:count(/a)", "inner"}

PipeParts ==
    {"extractAsXML xpath:/a/text()", "extractAsJSON jsonpath:inner",
     "extractAsXML  xpath:/a/b", "extractAsJSON xpath:/a/text()", "extractAsXML inner",
     "extractAsXML", "frobnicate jsonpath:inner", "frobnicate"}

\* the expressions: a first part and up to MaxPipes pipe parts
Expressions ==
    {Join(<<first>> \o pipes, " | ") : first \in FirstParts, pipes \in SeqsUpTo(PipeParts, MaxPipes)}

EngineInit ==
    /\ RequestInit
    /\ RouterIdle
    /\ ParserIdle
    /\ mc = [pc |-> "none"]
    /\ inbound = [pc |-> "none"]
    /\ handling = [pc |-> "none"]
    /\ \E pld \in Payloads, expression \in Expressions, rootless \in BOOLEAN :
        engine = [pc |-> "called", payload |-> pld, expression |-> expression,
                  rootless |-> rootless]

\* one call of ExpressionEngine.Evaluate
EngineEvaluate ==
    /\ engine.pc = "called"
    /\ engine' = [pc |-> "returned", payload |-> engine.payload,
                  expression |-> engine.expression, rootless |-> engine.rootless,
                  out |-> Evaluate(engine.payload, engine.expression, engine.rootless)]
    /\ UNCHANGED <<requestVars, routerVars, parserVars, mc, inbound, handling>>

EngineNext == EngineEvaluate

EngineSpec == EngineInit /\ [][EngineNext]_vars

-----------------------------------------------------------------------------
(* MessageContext: the lazily parsed payload *)

\* the goroutines that call into one MessageContext
MaxGoroutines == 2

\* the calls made on one MessageContext
MaxCalls == 3

Goroutines == 1..MaxGoroutines

\* the interface value of a field never assigned
NilInterface == [type |-> "nil", payload |-> NilPayloadObject, id |-> 0]

\* NewMessageContext(rawPayload, contentType, engine) for a well-formed and a
\* broken document of each format and for a content type without a parser
MessageContexts ==
    {[RawPayload |-> JSONOuter, ContentType |-> "application/json; charset=utf-8"],
     [RawPayload |-> "{\"inner\":", ContentType |-> "application/json"],
     [RawPayload |-> XMLFive, ContentType |-> "text/xml"],
     [RawPayload |-> "<a>5", ContentType |-> "application/xml"],
     [RawPayload |-> XMLFive, ContentType |-> "text/plain"]}

ContextCalls ==
    {[op |-> "GetProcessedPayload", expression |-> ""],
     [op |-> "EvaluateExpression", expression |-> "jsonpath:inner"],
     [op |-> "EvaluateExpression", expression |-> "xpath:/a/text()"]}

IdleGoroutine == [pc |-> "idle", op |-> "", expression |-> "", slow |-> FALSE, err |-> NoError]

ContextInit ==
    /\ RequestInit
    /\ RouterIdle
    /\ ParserIdle
    /\ engine = [pc |-> "none"]
    /\ inbound = [pc |-> "none"]
    /\ handling = [pc |-> "none"]
    /\ \E c \in MessageContexts :
        mc = [pc |-> "live", RawPayload |-> c.RawPayload, ContentType |-> c.ContentType,
              processedPayload |-> NilInterface, readers |-> 0, writer |-> FALSE,
              parses |-> 0, calls |-> 0,
              goroutines |-> [g \in Goroutines |-> IdleGoroutine],
              history |-> <<>>]

ContextUnchanged == UNCHANGED <<requestVars, routerVars, parserVars, engine, inbound, handling>>

Live == mc.pc = "live"

At(g, at) == Live /\ mc.goroutines[g].pc = at

Goto(g, at) == [mc.goroutines[g] EXCEPT !.pc = at]

\* a goroutine calls EvaluateExpression or GetProcessedPayload, which calls ensurePayloadParsed
CallContext(g, call) ==
    /\ At(g, "idle")
    /\ mc.calls < MaxCalls
    /\ mc' = [mc EXCEPT !.calls = @ + 1,
                        !.goroutines[g] = [pc |-> "RLock", op |-> call.op,
                                           expression |-> call.expression,
                                           slow |-> FALSE, err |-> NoError]]
    /\ ContextUnchanged

\* mc.payloadLock.RLock()
RLock(g) ==
    /\ At(g, "RLock")
    /\ ~mc.writer
    /\ mc' = [mc EXCEPT !.readers = @ + 1, !.goroutines[g] = Goto(g, "check")]
    /\ ContextUnchanged

\* mc.processedPayload != nil
IsParsed(processedPayload) == processedPayload.type # "nil"

\* the first check and the RUnlock of either branch
CheckAndRUnlock(g) ==
    /\ At(g, "check")
    /\ mc' = [mc EXCEPT !.readers = @ - 1,
                        !.goroutines[g] =
                            IF IsParsed(mc.processedPayload) THEN Goto(g, "ensured")
                            ELSE [Goto(g, "Lock") EXCEPT !.slow = TRUE]]
    /\ ContextUnchanged

\* mc.payloadLock.Lock()
WriteLock(g) ==
    /\ At(g, "Lock")
    /\ ~mc.writer
    /\ mc.readers = 0
    /\ mc' = [mc EXCEPT !.writer = TRUE, !.goroutines[g] = Goto(g, "recheck")]
    /\ ContextUnchanged

\* ensurePayloadParsed without the second check
DoubleCheckSkipped(processedPayload) == FALSE

\* the check repeated under the write lock
DoubleCheck(processedPayload) == IsParsed(processedPayload)

\* the constructors that parse: none is reached for a content type without a parser
Parses(created) == IF created.type = "nil" THEN 0 ELSE 1

\* the second check and, when it fails, the assignment from CreatePayload
RecheckAndCreate(g) ==
    /\ At(g, "recheck")
    /\ IF DoubleCheck(mc.processedPayload)
       THEN mc' = [mc EXCEPT !.goroutines[g] = Goto(g, "Unlock")]
       ELSE LET created == CreatePayload(mc.RawPayload, mc.ContentType, FALSE) IN
            mc' = [mc EXCEPT
                     !.processedPayload =
                         [type |-> created.type, payload |-> created.payload,
                          id |-> mc.parses + Parses(created)],
                     !.parses = @ + Parses(created),
                     !.goroutines[g] =
                         [Goto(g, "Unlock") EXCEPT
                            !.err = IF created.err # NoError
                                    THEN Errorf("failed to parse payload", created.err)
                                    ELSE NoError]]
    /\ ContextUnchanged

\* the deferred mc.payloadLock.Unlock()
WriteUnlock(g) ==
    /\ At(g, "Unlock")
    /\ mc' = [mc EXCEPT !.writer = FALSE, !.goroutines[g] = Goto(g, "ensured")]
    /\ ContextUnchanged

\* what the call returns to its caller
Returns(g, used, result, err) ==
    [goroutine |-> g, op |-> mc.goroutines[g].op, slow |-> mc.goroutines[g].slow,
     used |-> used, Result |-> result, err |-> err]

\* ensurePayloadParsed has returned: the error is handed on, or
\* mc.processedPayload is read, and returned or given to the engine; a method
\* called through a nil *XMLPayload or *JSONPayload reads a field of nil
ReturnFromContext(g) ==
    /\ At(g, "ensured")
    /\ LET self == mc.goroutines[g]
           pld == mc.processedPayload
           Done(entry) == mc' = [mc EXCEPT !.goroutines[g] = IdleGoroutine,
                                           !.history = Append(@, entry)]
       IN
       IF self.err # NoError
       THEN Done(Returns(g, NilInterface, ZeroQueryResult, self.err))
       ELSE IF self.op = "GetProcessedPayload"
       THEN Done(Returns(g, pld, ZeroQueryResult, NoError))
       ELSE IF pld.payload = NilPayloadObject
       THEN mc' = [mc EXCEPT !.pc = "panicked",
                             !.history = Append(@, Returns(g, pld, ZeroQueryResult, NoError))]
       ELSE LET out == Evaluate(pld.payload, self.expression, FALSE) IN
            Done(Returns(g, pld, out.Result, out.err))
    /\ ContextUnchanged

ContextNext ==
    \/ \E g \in Goroutines, call \in ContextCalls : CallContext(g, call)
    \/ \E g \in Goroutines : RLock(g)
    \/ \E g \in Goroutines : CheckAndRUnlock(g)
    \/ \E g \in Goroutines : WriteLock(g)
    \/ \E g \in Goroutines : RecheckAndCreate(g)
    \/ \E g \in Goroutines : WriteUnlock(g)
    \/ \E g \in Goroutines : ReturnFromContext(g)

ContextSpec == ContextInit /\ [][ContextNext]_vars

-----------------------------------------------------------------------------
(* Claims on ExpressionEngine.Evaluate *)

Returned == engine.pc = "returned"

\* the parts of the expression under evaluation, trimmed
Parts == [k \in DOMAIN Split(engine.expression, "|") |->
            TrimSpace(Split(engine.expression, "|")[k])]

\* the content type a pipe operation names
NamedFormat(part) ==
    IF Fields(part)[1] = "extractAsJSON" THEN "application/json" ELSE "application/xml"

\* C22: the query of every pipe segment is evaluated against the payload made
\* of the previous segment's string result in the format the segment names,
\* never against the original payload; jsonpath:inner | extractAsXML
\* xpath:/a/text() on a JSON payload whose inner is "<a>5</a>" gives "5"
C22_PipeUsesNewPayload ==
    Returned =>
        /\ \A k \in 2..Len(engine.out.queried) :
              engine.out.queried[k].payload =
                  [contentType |-> NamedFormat(Parts[k]),
                   raw |-> engine.out.results[k - 1].Value]
        /\ (engine.payload.raw = JSONOuter
            /\ engine.expression = "jsonpath:inner | extractAsXML xpath:/a/text()")
           => (engine.out.err = NoError /\ engine.out.Result = QueryResult("string", "5"))

C22_Witness ==
    /\ Returned
    /\ engine.payload.raw = JSONOuter
    /\ Len(engine.out.queried) = 3
    /\ engine.out.err = NoError
    /\ engine.out.Result = QueryResult("string", "6")

StringInputRequired ==
    ErrEvaluationFailed("requires string input from previous step", NoError)

\* C23: a pipe segment reached after a step whose result is no string fails
\* with the string-input evaluation error; no payload is created and no
\* query is evaluated for it or for any later segment
C23_StringInput ==
    Returned =>
        \A k \in 2..Len(Parts) :
            (Len(engine.out.results) >= k - 1 /\ engine.out.results[k - 1].Kind # "string")
            => /\ engine.out.err = StringInputRequired
               /\ Len(engine.out.created) = k - 2
               /\ Len(engine.out.queried) = k - 1
               /\ Len(engine.out.results) = k - 1

C23_Witness ==
    /\ Returned
    /\ Len(Parts) = 3
    /\ Len(engine.out.results) = 2
    /\ engine.out.results[2].Kind \in {"nil", "[]string"}
    /\ engine.out.err = StringInputRequired
    /\ Len(engine.out.created) = 1

Unprefixed(part) == ~HasPrefix(part, xpathPrefix) /\ ~HasPrefix(part, jsonpathPrefix)

UnknownOperation(part) == Fields(part)[1] \notin {"extractAsJSON", "extractAsXML"}

\* C24 as stated: an unprefixed first segment, and an unknown operation in
\* any pipe segment, make the expression fail with ErrUnsupportedExpression
\* and with no other kind of error
C24_Original ==
    (Returned /\ (Unprefixed(Parts[1]) \/ \E k \in 2..Len(Parts) : UnknownOperation(Parts[k])))
    => /\ ErrorAs(engine.out.err, "ErrUnsupportedExpression")
       /\ ~ErrorAs(engine.out.err, "ErrEvaluationFailed")
       /\ ~ErrorAs(engine.out.err, "ErrInvalidPayloadForOperation")

\* C24: an unprefixed first segment fails with ErrUnsupportedExpression under
\* the message of the part; a pipe segment with an unknown operation that is
\* reached fails with ErrUnsupportedExpression when the previous result is a
\* string and the segment has an expression after the operation, and with
\* ErrEvaluationFailed otherwise
C24_Unsupported ==
    Returned =>
        /\ Unprefixed(Parts[1]) =>
              engine.out.err = Errorf("error in expression part", ErrUnsupportedExpression(Parts[1]))
        /\ \A k \in 2..Len(Parts) :
              (UnknownOperation(Parts[k]) /\ Len(engine.out.results) = k - 1)
              => IF engine.out.results[k - 1].Kind = "string" /\ Len(Fields(Parts[k])) >= 2
                 THEN engine.out.err =
                        ErrUnsupportedExpression("unknown pipe operation: " \o Fields(Parts[k])[1])
                 ELSE engine.out.err.chain = <<"ErrEvaluationFailed">>

C24_Witness ==
    /\ Returned
    /\ Len(Parts) = 3
    /\ Len(engine.out.results) = 2
    /\ engine.out.err = ErrUnsupportedExpression("unknown pipe operation: frobnicate")

-----------------------------------------------------------------------------
(* Claims on MessageContext *)

Succeeded(entry) == entry.err = NoError

ParseFailed(entry) == entry.err.reason = "failed to parse payload"

\* C25: whatever the interleaving of the calls on one MessageContext, its raw
\* payload is parsed at most once, and all calls that succeed use one and the
\* same cached payload object
C25_ParsedOnce ==
    Live =>
        /\ mc.parses <= 1
        /\ \A i, j \in DOMAIN mc.history :
              (Succeeded(mc.history[i]) /\ Succeeded(mc.history[j]))
              => mc.history[i].used = mc.history[j].used

\* two goroutines found the payload not parsed, both went for the write lock,
\* and both returned the payload of the single parse
C25_Witness ==
    /\ Live
    /\ mc.parses = 1
    /\ \E i, j \in DOMAIN mc.history :
          /\ mc.history[i].goroutine # mc.history[j].goroutine
          /\ mc.history[i].slow /\ mc.history[j].slow
          /\ Succeeded(mc.history[i]) /\ Succeeded(mc.history[j])
          /\ mc.history[i].used.payload # NilPayloadObject

\* C27: once a call on a MessageContext has failed because the raw payload
\* cannot be parsed, every later call on it returns an error too, and none
\* evaluates an expression against a missing payload
C27_FailureNotCached ==
    (mc.pc \in {"live", "panicked"} /\ mc.history # <<>> /\ ParseFailed(mc.history[1]))
    => /\ mc.pc # "panicked"
       /\ \A k \in DOMAIN mc.history : ~Succeeded(mc.history[k])

-----------------------------------------------------------------------------
(* The resource handler's message context *)

\* the value the multiplexer bound to every path wildcard of the pattern
PathValue == "7"

HandlerResources ==
    [PathParameters : {<<>>, <<"id">>},
     QueryParameters : {EmptyMap, [k \in {"page"} |-> "pageVar"]}]

\* a request as a handler gets it: the body behind r.Body, whether reading it
\* fails, the Content-Type header and the keys of the query string
HandlerRequests ==
    [body : {"", XMLFive}, readFails : BOOLEAN, contentType : {"", "application/xml"},
     query : SUBSET {"page"}]

HandlerInit ==
    /\ RequestInit
    /\ RouterIdle
    /\ ParserIdle
    /\ engine = [pc |-> "none"]
    /\ mc = [pc |-> "none"]
    /\ inbound = [pc |-> "none"]
    /\ \E file \in {"service.go", "part_005"}, resource \in HandlerResources :
        handling = [pc |-> "registered", impl |-> file, resource |-> resource]

\* the context of createResourceHandler: the body reader, the path values under
\* the declared names and, for a resource with declared query parameters, the
\* values of those present under their variable names
ResourceHandlerContext(resource, r) ==
    LET declared == DOMAIN resource.QueryParameters
        pathParamsMap == [pathParam \in {resource.PathParameters[i] : i \in DOMAIN resource.PathParameters}
                            |-> PathValue]
        queryVarMap == [varName \in {resource.QueryParameters[k] : k \in declared \cap r.query}
                            |-> QueryValue]
        properties == [k \in {"http_request_body", "uriParams"} \cup
                             (IF declared # {} THEN {"queryParams"} ELSE {}) |->
                         CASE k = "http_request_body" -> [reader |-> "r.Body"]
                           [] k = "uriParams" -> pathParamsMap
                           [] k = "queryParams" -> queryVarMap]
    IN [Headers |-> EmptyMap,
        Message |-> [RawPayload |-> NilPayload, ContentType |-> ""],
        Properties |-> properties]

\* the context of createHandlerFunc: path, method and API name as properties,
\* the request headers, the body read and the Content-Type header
HandlerFuncContext(r) ==
    [Headers |-> IF r.contentType = "" THEN EmptyMap
                 ELSE [k \in {"Content-Type"} |-> r.contentType],
     Message |-> [RawPayload |-> r.body, ContentType |-> r.contentType],
     Properties |-> [k \in {"request", "method", "api"} |-> [value |-> k]]]

\* one request through the handler: service.go's createResourceHandler hands
\* r.Body on unread, part_005's createHandlerFunc reads it and answers 500
\* when the read fails; success is what Mediate returns
HandleRequest(r, success) ==
    /\ handling.pc = "registered"
    /\ handling' =
         IF handling.impl = "part_005" /\ r.readFails
         THEN [pc |-> "answered", impl |-> handling.impl, resource |-> handling.resource,
               request |-> r, reads |-> 1, mediateCalls |-> 0,
               ctx |-> NoMsgContext,
               status |-> StatusInternalServerError]
         ELSE [pc |-> "answered", impl |-> handling.impl, resource |-> handling.resource,
               request |-> r,
               reads |-> IF handling.impl = "part_005" THEN 1 ELSE 0,
               mediateCalls |-> 1,
               ctx |-> IF handling.impl = "part_005" THEN HandlerFuncContext(r)
                       ELSE ResourceHandlerContext(handling.resource, r),
               status |-> IF success THEN StatusOK ELSE StatusInternalServerError]
    /\ UNCHANGED <<requestVars, routerVars, parserVars, engine, mc, inbound>>

HandlerNext == \E r \in HandlerRequests, success \in BOOLEAN : HandleRequest(r, success)

HandlerSpec == HandlerInit /\ [][HandlerNext]_vars

\* C26: the context handed to Mediate holds the body bytes, read once, and the
\* content type of the request, the path values under the declared names, and
\* the query values under the declared variable names exactly when the
\* resource declares query parameters; a failing body read is answered 500
\* without a call of Mediate
C26_ContextFromRequest ==
    handling.pc = "answered" =>
        LET r == handling.request
            resource == handling.resource
            ctx == handling.ctx
            declared == DOMAIN resource.QueryParameters
        IN
        /\ r.readFails => (handling.status = StatusInternalServerError /\ handling.mediateCalls = 0)
        /\ handling.mediateCalls = 1 =>
              /\ handling.reads = 1
              /\ ctx.Message.RawPayload = r.body
              /\ ctx.Message.ContentType = r.contentType
              /\ "uriParams" \in DOMAIN ctx.Properties
              /\ \A i \in DOMAIN resource.PathParameters :
                    /\ resource.PathParameters[i] \in DOMAIN ctx.Properties["uriParams"]
                    /\ ctx.Properties["uriParams"][resource.PathParameters[i]] = PathValue
              /\ ("queryParams" \in DOMAIN ctx.Properties) <=> (declared # {})
              /\ declared # {} =>
                    ctx.Properties["queryParams"] =
                        [varName \in {resource.QueryParameters[k] : k \in declared \cap r.query}
                            |-> QueryValue]

-----------------------------------------------------------------------------
(* HTTPInboundEndpoint: Start, Stop and the two goroutines of Start *)

\* config.Parameters["inbound.http.port"]
Ports == {"8290", ":8290"}

\* ":" + port, or the port itself when it brings its colon
ListenAddr(port) == IF SubSeq(port, 1, 1) = ":" THEN port ELSE ":" \o port

\* NewHTTPInboundEndpoint, and the context Start will be given, cancelled or not
InboundInit ==
    /\ RequestInit
    /\ RouterIdle
    /\ ParserIdle
    /\ engine = [pc |-> "none"]
    /\ mc = [pc |-> "none"]
    /\ handling = [pc |-> "none"]
    /\ \E file \in {"http_inbound.go", "part_001"}, port \in Ports, done \in BOOLEAN :
        inbound = [pc |-> "live", impl |-> file, port |-> port, cancelled |-> done,
                   IsRunning |-> FALSE, server |-> "nil", routes |-> {},
                   listener |-> "none", monitor |-> "none",
                   startReturned |-> "", stopReturned |-> FALSE]

InboundUnchanged == UNCHANGED <<requestVars, routerVars, parserVars, engine, mc, handling>>

InboundLive == inbound.pc = "live"

\* Start(ctx, mediator): the context error when ctx is done; else the flag,
\* the handler on "/" (a second registration of the pattern panics), the
\* server and the two goroutines
StartEndpoint ==
    /\ InboundLive
    /\ inbound' =
         IF inbound.cancelled
         THEN [inbound EXCEPT !.startReturned = "context canceled"]
         ELSE IF "/" \in inbound.routes
         THEN [inbound EXCEPT !.pc = "panicked", !.IsRunning = TRUE]
         ELSE [inbound EXCEPT !.IsRunning = TRUE, !.routes = {"/"},
                              !.server = ListenAddr(inbound.port),
                              !.listener = "starting", !.monitor = "waiting",
                              !.startReturned = "nil"]
    /\ InboundUnchanged

\* h.server.ListenAndServe() in its goroutine: the listener is bound and
\* serves, or the address cannot be bound and the error is logged
ListenAndServe ==
    /\ InboundLive
    /\ inbound.listener = "starting"
    /\ \E bound \in BOOLEAN :
        inbound' = [inbound EXCEPT !.listener = IF bound THEN "serving" ELSE "failed"]
    /\ InboundUnchanged

\* the context given to Start is cancelled
CancelContext ==
    /\ InboundLive
    /\ ~inbound.cancelled
    /\ inbound' = [inbound EXCEPT !.cancelled = TRUE]
    /\ InboundUnchanged

\* the monitor goroutine: <-ctx.Done(), then h.server.Shutdown(ctx), which
\* closes the listener; a ListenAndServe called after it returns ErrServerClosed
MonitorShutdown ==
    /\ InboundLive
    /\ inbound.monitor = "waiting"
    /\ inbound.cancelled
    /\ inbound' = [inbound EXCEPT !.monitor = "done",
                                  !.listener = IF @ = "failed" THEN "failed" ELSE "closed"]
    /\ InboundUnchanged

\* Stop()
StopEndpoint ==
    /\ InboundLive
    /\ inbound' = [inbound EXCEPT !.IsRunning = FALSE, !.stopReturned = TRUE]
    /\ InboundUnchanged

InboundNext ==
    \/ StartEndpoint
    \/ ListenAndServe
    \/ CancelContext
    \/ MonitorShutdown
    \/ StopEndpoint

InboundSpec == InboundInit /\ [][InboundNext]_vars

\* the listener of the endpoint accepts no connection: none was bound, or it was closed
ListenerDown == inbound.listener \in {"none", "failed", "closed"}

\* C30: Start on a cancelled context returns the context's error and leaves
\* IsRunning false and no server; once Stop has returned, or the context of
\* Start was cancelled and the monitor has acted on it, the listener is down
\* if and only if IsRunning is false
C30_RunningIffServing ==
    inbound.pc \in {"live", "panicked"} =>
        /\ (inbound.startReturned = "context canceled" /\ inbound.routes = {})
           => (~inbound.IsRunning /\ inbound.server = "nil")
        /\ (inbound.stopReturned \/ inbound.monitor = "done")
           => (ListenerDown <=> ~inbound.IsRunning)

====
